---- MODULE Spec2Model ----
(***************************************************************************)
(* Model of the knowledge-sync service: the resumable Notion and Slack     *)
(* sync orchestrators (src/src/sync/notion.sync.ts, slack.sync.ts), the    *)
(* Firestore sync-state and document store they persist to, and the        *)
(* vector-store index they upload to.                                      *)
(*                                                                         *)
(* One behaviour follows one source ("notion" or "slack", fixed by Init).  *)
(* An invocation of sync() is a process p with local state inv[p]; a       *)
(* Crash(p) step kills it between any two awaited calls, keeping only the  *)
(* persisted state (syncState, docs, files).                               *)
(***************************************************************************)
EXTENDS Integers, Sequences, FiniteSets, TLC

\* ------------------------------------------------------------------ bounds
\* Number of items (Notion pages / Slack messages) present at the source.
NumItems == 3
\* Pages per Notion search call (20 in the source, scaled down).
CHUNK_SIZE == 2
\* Messages per conversations.history call (100 in the source, scaled down).
MESSAGES_PER_CHUNK == 2
\* How many times sync() is invoked in one behaviour.
MaxInvocations == 2
\* Operations handed to one call of processQueue, at most.
MaxOps == 3
\* ProcessorConfig.concurrency (10 by default in the source, scaled down).
QueueConcurrency == 2
\* RateLimiter: concurrent callers of execute(), the largest maxRequests, the
\* window and the last instant of the clock, in units of 10 ms.
LimiterCallers == 3
LimiterMaxRequests == 2
LimiterWindow == 3
LimiterMaxTime == 5
\* waitIfNeeded: the "+10ms buffer", one unit of 10 ms.
WaitBuffer == 1
\* withRetry: the largest maxRetries option, and the delays in seconds.
MaxRetriesOption == 3
InitialDelay == 1
MaxDelay == 3
\* Requests to the stop endpoint in one behaviour.
MaxStopRequests == 2

\* ------------------------------------------------------------------ values
\* null / undefined of a nullable field (cursor, syncStartTime, editedTs).
Null == 0
\* vectorStoreFileId: '' of a record whose upload is not confirmed.
NoFile == 0
\* getDocument() returning null.
NoDoc == [absent |-> TRUE]

Procs == {1, 2}
ItemIds == 1..NumItems
\* NumItems + 1 is an item that was synced once and has left the source.
AllIds == 1..(NumItems + 1)

Min(a, b) == IF a < b THEN a ELSE b
Max(a, b) == IF a > b THEN a ELSE b

SeqRange(a, b) == [k \in 1..(IF b >= a THEN b - a + 1 ELSE 0) |-> a + k - 1]

\* ------------------------------------------------------------------ source
\* page.lastEditedTime of a Notion page.
lastEditedTime(id) == 2
\* msg.reply_count and msg.edited?.ts of a Slack message.
replyCountOf(id) == 1
editedTsOf(id) == IF id % 2 = 0 THEN 7 ELSE Null
\* The rendered content of an item, and its digest.
ContentOf(id) == 10 + id
calculateContentHash(content) == 100 + content

\* Slack channel lists returned by conversations.list: each channel has the
\* messages of its history (the ones that pass the length/bot filters) and
\* whether isChannelBlacklisted(channel.name) holds.
Chan(msgs, bl) == [msgs |-> msgs, blacklisted |-> bl]
SlackLayouts ==
    { <<Chan(SeqRange(1, NumItems), FALSE)>>,
      <<Chan(SeqRange(1, NumItems - 1), FALSE), Chan(SeqRange(NumItems, NumItems), FALSE)>>,
      <<Chan(<<>>, TRUE), Chan(SeqRange(1, NumItems), FALSE)>>,
      <<Chan(SeqRange(1, NumItems), FALSE), Chan(<<>>, TRUE), Chan(<<>>, TRUE)>> }

\* ------------------------------------------------------------------ records
ZeroStats ==
    [processed |-> 0, added |-> 0, updated |-> 0, unchanged |-> 0,
     deleted |-> 0, errored |-> 0]

\* A KnowledgeDocument as a sync run writes it.
Doc(file, hash, lastModified, replyCount, editedTs, lastSeenAt) ==
    [file |-> file, contentHash |-> hash, lastModified |-> lastModified,
     replyCount |-> replyCount, editedTs |-> editedTs, lastSeenAt |-> lastSeenAt]

\* The record an earlier, completed run (at time 0) left for item id.
\*   "same"       in step with the source
\*   "touched"    older change marker, same content
\*   "changed"    older change marker, other content
\*   "incomplete" written with an older change marker, upload never confirmed
InitDoc(id, kind) ==
    CASE kind = "absent" -> NoDoc
      [] kind = "same" ->
            Doc(id, calculateContentHash(ContentOf(id)), lastEditedTime(id),
                replyCountOf(id), editedTsOf(id), 0)
      [] kind = "touched" ->
            Doc(id, calculateContentHash(ContentOf(id)), lastEditedTime(id) - 1,
                replyCountOf(id) - 1, editedTsOf(id), 0)
      [] kind = "changed" ->
            Doc(id, calculateContentHash(ContentOf(id)) + 1, lastEditedTime(id) - 1,
                replyCountOf(id) - 1, editedTsOf(id), 0)
      [] kind = "incomplete" ->
            Doc(NoFile, calculateContentHash(ContentOf(id)), lastEditedTime(id) - 1,
                replyCountOf(id) - 1, editedTsOf(id), 0)

\* The stores a run can start from.
InitKind(cfg, id) ==
    CASE cfg = 1 -> "absent"
      [] cfg = 2 ->
            IF id = NumItems + 1 THEN "same"
            ELSE IF id % 3 = 1 THEN "same"
            ELSE IF id % 3 = 2 THEN "changed" ELSE "absent"
      [] cfg = 3 ->
            IF id = NumItems + 1 THEN "absent"
            ELSE IF id % 3 = 1 THEN "incomplete"
            ELSE IF id % 3 = 2 THEN "touched" ELSE "same"

InitStore(cfg) == [id \in AllIds |-> InitDoc(id, InitKind(cfg, id))]

\* ------------------------------------------------------------------ state
VARIABLES
    source,      \* "notion" or "slack"
    channels,    \* the Slack channel list (<<>> for Notion)
    syncState,   \* knowledge_sync_state/<source>
    docs,        \* knowledge_documents of this source: id -> record or NoDoc
    files,       \* file ids present in the vector store
    inv,         \* local state of each invocation of sync()
    procs,       \* the invocations that may run
    clock,       \* Date.now(), advanced at every invocation
    ghost,       \* history of the current run, for the properties
    queue,       \* one call of VectorStoreProcessor.processQueue
    limiter,     \* one RateLimiter instance and the callers of execute()
    retry,       \* one call of withRetry
    stopHandler  \* the HTTP function stopNotionSync / stopSlackSync

syncVars == <<source, channels, syncState, docs, files, inv, procs, clock, ghost>>
utilVars == <<queue, limiter, retry, stopHandler>>
vars == <<syncVars, utilVars>>

\* getSyncState() of a source never synced returns null.
NoState ==
    [exists |-> FALSE, status |-> "none", cursor |-> Null, syncStartTime |-> Null,
     stopRequested |-> FALSE, stats |-> ZeroStats, currentChannelIndex |-> 0,
     currentChannelCursor |-> Null, lastError |-> FALSE]

\* The SyncState a completed earlier run leaves.
CompletedState == [NoState EXCEPT !.exists = TRUE, !.status = "completed"]

\* SyncResult.processed as sync() initialises it.
ZeroCounts == [added |-> 0, updated |-> 0, deleted |-> 0, errored |-> 0]

\* result.processed = { added: state.stats.added, ... }
countsOf(stats) ==
    [added |-> stats.added, updated |-> stats.updated, deleted |-> stats.deleted,
     errored |-> stats.errored]

\* The SyncResult sync() returns in each outcome: the completed and the
\* paused path copy the counts of state.stats, the catch leaves the counts of
\* the initial result; stats is state.stats at the return.
SyncResult(outcome, stats) ==
    [outcome |-> outcome,
     processed |-> IF outcome = "failed" THEN ZeroCounts ELSE countsOf(stats),
     stats |-> stats]

NoResult == SyncResult("none", ZeroStats)

IdleInv ==
    [pc |-> "idle", maxItems |-> 0, timedOut |-> FALSE, isResume |-> FALSE,
     cursor |-> Null, syncStartTime |-> Null, stats |-> ZeroStats,
     hasMore |-> FALSE, chunk |-> <<>>, respHasMore |-> FALSE, respNext |-> Null,
     idx |-> 0, item |-> 0, existing |-> NoDoc, fileId |-> NoFile,
     i |-> 0, startIndex |-> 0, currentChannelIndex |-> 0,
     currentChannelCursor |-> Null, totalProcessed |-> 0, processed |-> 0,
     chanMax |-> 0, currentCursor |-> Null, ckIndex |-> 0, ckCursor |-> Null, ckRet |-> "idle",
     stale |-> <<>>, deleteCount |-> 0,
     sawExhausted |-> FALSE, sawStop |-> FALSE, sawCap |-> FALSE, dirty |-> FALSE,
     fetched |-> FALSE, delStatus |-> 0]

ZeroGhost ==
    [seen |-> [id \in AllIds |-> 0],   \* times classified in this run (2 = more than once)
     removed |-> {},                    \* records deleted by the delete phase
     ckptKill |-> FALSE,                \* killed right after a checkpoint write
     midKill |-> FALSE,                 \* killed at another point
     itemErr |-> FALSE,                 \* an item of this run failed
     failed |-> {},                     \* the items of this run that failed
     resumed |-> FALSE,                 \* an invocation resumed this run
     capUsed |-> FALSE,                 \* an invocation of this run had an item cap
     stopped |-> FALSE,                 \* shouldStop() held in an invocation of this run
     fetchErr |-> FALSE,                \* a history fetch of this run failed
     delErr |-> FALSE,                  \* a delete of a stale record failed
     wrongDelete |-> FALSE,             \* a record seen in this run was deleted
     found |-> "none",                  \* the status the latest initialize() found
     foundCkpt |-> FALSE,               \* ... with cursor and syncStartTime present
     runStart |-> Null,                 \* syncStartTime of the run that completed
     orphaned |-> {},                   \* items whose record a kill left without file id
     prevClean |-> FALSE,               \* the run before this one completed without
                                        \* item error and without cap
     result |-> NoResult]               \* what the latest return of sync() returned

\* files.create returns an id no file, record or running invocation holds;
\* the ids of the files of Init are never given out again.
FileIds == (NumItems + 2)..(NumItems + 1 + MaxInvocations * NumItems + 1)
HeldFiles ==
    files \cup {docs[id].file : id \in {x \in AllIds : docs[x] # NoDoc}}
          \cup {inv[p].fileId : p \in Procs}
          \cup {inv[p].existing.file : p \in {q \in Procs : inv[q].existing # NoDoc}}
          \cup UNION {{inv[p].stale[k].file : k \in DOMAIN inv[p].stale} : p \in Procs}
createFile ==
    CHOOSE f \in FileIds \ HeldFiles : \A g \in FileIds \ HeldFiles : f <= g

L(p) == inv[p]
SetInv(p, l) == inv' = [inv EXCEPT ![p] = l]
Active(p) == inv[p].pc # "idle"

\* ------------------------------------------------------------ FirestoreService
\* An updateSyncState that writes with set(): the fields not given fall back to
\* the defaults.
updateSyncStateSet(s, partial) ==
    LET base == [NoState EXCEPT !.exists = TRUE, !.status = "idle"]
    IN  [k \in DOMAIN base |-> IF k \in DOMAIN partial THEN partial[k] ELSE base[k]]

\* updateSyncState: update() of an existing document merges the given fields;
\* a missing document is created from the idle defaults plus the given fields.
updateSyncState(s, partial) ==
    LET base == IF s.exists THEN s ELSE [NoState EXCEPT !.exists = TRUE, !.status = "idle"]
    IN  [k \in DOMAIN base |-> IF k \in DOMAIN partial THEN partial[k] ELSE base[k]]

\* A failSync that resets the resumable state.
failSyncClearing(s) ==
    updateSyncState(s, [status |-> "failed", lastError |-> TRUE, cursor |-> Null,
                        syncStartTime |-> Null, stats |-> ZeroStats])

\* failSync(source, error)
failSync(s) == updateSyncState(s, [status |-> "failed", lastError |-> TRUE])

\* startSync(source, syncStartTime): the fresh run's state is persisted.
startSync(s, t) ==
    updateSyncState(s, [status |-> "running", syncStartTime |-> t, cursor |-> Null,
                        stats |-> ZeroStats, currentChannelIndex |-> 0,
                        currentChannelCursor |-> Null])

\* saveCheckpoint(source, cursor, stats)
saveCheckpoint(s, cursor, stats) ==
    updateSyncState(s, [cursor |-> cursor, stats |-> stats])

\* setTimeoutStatus(source)
setTimeoutStatus(s) == updateSyncState(s, [status |-> "timeout"])

\* completeSync(source, lastSyncTimestamp, totalDocuments, stats?): with
\* withStats = FALSE the caller passed no stats (Slack).
completeSync(s, withStats, stats) ==
    updateSyncState(s, [status |-> "completed", cursor |-> Null, syncStartTime |-> Null,
                        stopRequested |-> FALSE, lastError |-> FALSE,
                        stats |-> IF withStats THEN stats ELSE s.stats])

\* requestStop(source)
requestStop(s) == updateSyncState(s, [stopRequested |-> TRUE])

\* ------------------------------------------------------------ VectorStoreProcessor
\* openai.files.del(fileId): the HTTP status of the index's answer, 200 for a
\* file it holds, 404 for one it does not hold, or a failure of the call (500).
indexStatus(f) == IF f \in files THEN 200 ELSE 404
IndexResponses(f) == {indexStatus(f), 500}

\* A deleteFile that ignores every error of files.del.
deleteFileLenient(vsStatus, status) == "ok"

\* A deleteFile that re-throws every error of files.del.
deleteFileStrict(vsStatus, status) == IF status = 200 THEN "ok" ELSE "throw"

\* deleteFile(fileId): an error of vectorStores.files.del (vsStatus) is logged
\* and ignored; an error of files.del is ignored when its status is 404 and
\* re-thrown otherwise.
deleteFile(vsStatus, status) == IF status = 200 \/ status = 404 THEN "ok" ELSE "throw"

\* ------------------------------------------------------------ stale records
\* getStaleDocuments(source, syncStartTime): the records not seen since the
\* run started, in id order, as <<id, vectorStoreFileId>>.
IsStale(d, syncStartTime) == d # NoDoc /\ d.lastSeenAt < syncStartTime

RECURSIVE StaleFrom(_, _, _)
StaleFrom(store, syncStartTime, id) ==
    IF id > NumItems + 1 THEN <<>>
    ELSE (IF IsStale(store[id], syncStartTime)
          THEN <<[id |-> id, file |-> store[id].file]>> ELSE <<>>)
         \o StaleFrom(store, syncStartTime, id + 1)

getStaleDocuments(store, syncStartTime) == StaleFrom(store, syncStartTime, 1)

\* ------------------------------------------------------------ classification
\* NotionSync.processPage: page.lastEditedTime > existing.lastModified
notionChanged(id, existing) == lastEditedTime(id) > existing.lastModified

\* SlackSync.hasMessageChanged
hasMessageChanged(existing, replyCount, editedTs) ==
    \/ replyCount > existing.replyCount
    \/ (editedTs # Null /\ editedTs # existing.editedTs)

\* A classification without the branch for a record without file id.
ClassifyNoIncomplete(src, id, existing) ==
    IF existing = NoDoc THEN "new"
    ELSE IF (IF src = "notion" THEN notionChanged(id, existing)
             ELSE hasMessageChanged(existing, replyCountOf(id), editedTsOf(id)))
         THEN "updated"
    ELSE "unchanged"

\* A classification that looks at the change marker before the file id.
ClassifyMarkerFirst(src, id, existing) ==
    IF existing = NoDoc THEN "new"
    ELSE IF (IF src = "notion" THEN notionChanged(id, existing)
             ELSE hasMessageChanged(existing, replyCountOf(id), editedTsOf(id)))
         THEN "updated"
    ELSE IF existing.file = NoFile THEN "incomplete"
    ELSE "unchanged"

\* processPage / processMessage: the class of an item, by first match.
Classify(src, id, existing) ==
    IF existing = NoDoc THEN "new"
    ELSE IF existing.file = NoFile THEN "incomplete"
    ELSE IF (IF src = "notion" THEN notionChanged(id, existing)
             ELSE hasMessageChanged(existing, replyCountOf(id), editedTsOf(id)))
         THEN "updated"
    ELSE "unchanged"

ItemPcs == {"item", "new_save", "new_upload", "new_attach",
            "upd_render", "upd_delete", "upd_upload", "upd_write", "mark_seen"}

\* ------------------------------------------------------------ Notion: chunks
\* notion.search with start_cursor and page_size: the cursor is the position
\* of the next page.
FetchPos(cursor) == IF cursor = Null THEN 1 ELSE cursor
FetchItems(cursor, size) == SeqRange(FetchPos(cursor), Min(FetchPos(cursor) + size - 1, NumItems))
FetchHasMore(cursor, size) == FetchPos(cursor) + size - 1 < NumItems
FetchNext(cursor, size) == IF FetchHasMore(cursor, size) THEN FetchPos(cursor) + size ELSE Null

\* processChunk: chunkSize
notionChunkSize(maxPages, processed) ==
    IF maxPages # 0 THEN Min(CHUNK_SIZE, maxPages - processed) ELSE CHUNK_SIZE

\* processChunk from the head of its for loop (l.idx is the next page) to its
\* return, and sync()'s use of the returned hasMore / nextCursor.
notionNextPage(l) ==
    IF l.idx <= Len(l.chunk) /\ ~(l.maxItems # 0 /\ l.stats.processed >= l.maxItems)
    THEN [l EXCEPT !.pc = "item", !.item = l.chunk[l.idx]]
    ELSE IF l.maxItems # 0 /\ l.stats.processed >= l.maxItems
    THEN [l EXCEPT !.pc = "n_ckpt", !.hasMore = FALSE, !.cursor = Null, !.sawCap = TRUE]
    ELSE [l EXCEPT !.pc = "n_ckpt", !.hasMore = l.respHasMore, !.cursor = l.respNext,
                   !.sawExhausted = ~l.respHasMore]

\* ------------------------------------------------------------ Slack: chunks
\* conversations.history of one channel with cursor and limit.
HistoryItems(msgs, cursor) ==
    SubSeq(msgs, FetchPos(cursor), Min(FetchPos(cursor) + MESSAGES_PER_CHUNK - 1, Len(msgs)))
HistoryHasMore(msgs, cursor) == FetchPos(cursor) + MESSAGES_PER_CHUNK - 1 < Len(msgs)
HistoryNext(msgs, cursor) ==
    IF HistoryHasMore(msgs, cursor) THEN FetchPos(cursor) + MESSAGES_PER_CHUNK ELSE Null

\* processChannel from the head of its for loop over response.messages to the
\* head of its while loop: the cap ends the for loop early, and a checkpoint
\* inside the channel is saved when the history has more.
slackNextMessage(l) ==
    IF l.idx <= Len(l.chunk) /\ ~(l.chanMax # 0 /\ l.processed >= l.chanMax)
    THEN [l EXCEPT !.pc = "item", !.item = l.chunk[l.idx]]
    ELSE IF l.respHasMore
    THEN [l EXCEPT !.pc = "s_ckpt1", !.hasMore = TRUE, !.currentCursor = l.respNext,
                   !.ckIndex = l.currentChannelIndex, !.ckCursor = l.respNext,
                   !.ckRet = "s_chan"]
    ELSE [l EXCEPT !.pc = "s_chan", !.hasMore = FALSE, !.currentCursor = l.respNext]

\* An end of item that leaves a failed page out of stats.processed.
itemEndSkipsErrored(src, l, stat, wasProcessed) ==
    LET s1 == [l.stats EXCEPT ![stat] = @ + 1]
        l1 == [l EXCEPT !.idx = @ + 1, !.existing = NoDoc, !.fileId = NoFile]
    IN  IF src = "notion"
        THEN notionNextPage([l1 EXCEPT !.stats = IF stat # "errored"
                                                 THEN [s1 EXCEPT !.processed = @ + 1]
                                                 ELSE s1])
        ELSE slackNextMessage(
                 [l1 EXCEPT !.stats = IF wasProcessed
                                      THEN [s1 EXCEPT !.processed = @ + 1] ELSE s1,
                            !.processed = IF wasProcessed THEN @ + 1 ELSE @])

\* The end of one item of the chunk: the counters of processChunk (Notion:
\* processed++ whatever happened) and of processChannel (Slack: processed++
\* only when processMessage returned true), then the next item.
itemEnd(src, l, stat, wasProcessed) ==
    LET s1 == [l.stats EXCEPT ![stat] = @ + 1]
        l1 == [l EXCEPT !.idx = @ + 1, !.existing = NoDoc, !.fileId = NoFile]
    IN  IF src = "notion"
        THEN notionNextPage([l1 EXCEPT !.stats = [s1 EXCEPT !.processed = @ + 1]])
        ELSE slackNextMessage(
                 [l1 EXCEPT !.stats = IF wasProcessed
                                      THEN [s1 EXCEPT !.processed = @ + 1] ELSE s1,
                            !.processed = IF wasProcessed THEN @ + 1 ELSE @])

\* A saveDocument that already names a file: the id files.create would give.
newDocWithFile(src, id, syncStartTime) ==
    IF src = "notion"
    THEN Doc(createFile, calculateContentHash(ContentOf(id)), lastEditedTime(id), 0, Null,
             syncStartTime)
    ELSE Doc(createFile, calculateContentHash(ContentOf(id)), 1, replyCountOf(id),
             editedTsOf(id), syncStartTime)

\* The record syncNewPage / syncNewMessage saves before the upload.
newDoc(src, id, syncStartTime) ==
    IF src = "notion"
    THEN Doc(NoFile, calculateContentHash(ContentOf(id)), lastEditedTime(id), 0, Null,
             syncStartTime)
    ELSE Doc(NoFile, calculateContentHash(ContentOf(id)), 1, replyCountOf(id),
             editedTsOf(id), syncStartTime)

\* A hash-equal updateDocument that leaves lastSeenAt as it was.
metadataUpdateKeepsSeen(src, id, d, syncStartTime) ==
    IF src = "notion"
    THEN [d EXCEPT !.lastModified = lastEditedTime(id)]
    ELSE [d EXCEPT !.replyCount = replyCountOf(id),
                   !.editedTs = IF editedTsOf(id) # Null THEN editedTsOf(id) ELSE @]

\* A hash-equal updateDocument that also drops the file id.
metadataUpdateDropsFile(src, id, d, syncStartTime) ==
    IF src = "notion"
    THEN [d EXCEPT !.lastModified = lastEditedTime(id), !.lastSeenAt = syncStartTime,
                   !.file = NoFile]
    ELSE [d EXCEPT !.lastSeenAt = syncStartTime, !.replyCount = replyCountOf(id),
                   !.editedTs = IF editedTsOf(id) # Null THEN editedTsOf(id) ELSE @,
                   !.file = NoFile]

\* updateDocument of the hash-equal branch of syncUpdatedPage / syncUpdatedMessage.
metadataUpdate(src, id, d, syncStartTime) ==
    IF src = "notion"
    THEN [d EXCEPT !.lastModified = lastEditedTime(id), !.lastSeenAt = syncStartTime]
    ELSE [d EXCEPT !.lastSeenAt = syncStartTime, !.replyCount = replyCountOf(id),
                   !.editedTs = IF editedTsOf(id) # Null THEN editedTsOf(id) ELSE @]

\* updateDocument after the re-upload of syncUpdatedPage / syncUpdatedMessage.
contentUpdate(src, id, d, fileId, syncStartTime) ==
    [metadataUpdate(src, id, d, syncStartTime) EXCEPT
        !.file = fileId, !.contentHash = calculateContentHash(ContentOf(id))]

\* A markDocumentSeen that also rewrites the change marker.
markDocumentSeenRewrites(d, now) ==
    [d EXCEPT !.lastSeenAt = now, !.lastModified = now, !.replyCount = now]

\* markDocumentSeen(source, id): refreshes lastSeenAt to the current time.
markDocumentSeen(d, now) == [d EXCEPT !.lastSeenAt = now]

\* ------------------------------------------------------------ processQueue
\* A VectorStoreOperation; id is the record it is about.
Op(type, id) == [type |-> type, id |-> id]

\* The operation lists processQueue is called with.
QueueInputs ==
    UNION {{[k \in 1..n |-> Op(t[k], k)] : t \in [1..n -> {"upload", "delete"}]} :
           n \in 0..MaxOps}

\* A chunkArray whose chunks hold one element more than size.
chunkArrayOversize(array, size) ==
    [c \in 1..((Len(array) + size) \div (size + 1)) |->
        SubSeq(array, (c - 1) * (size + 1) + 1, Min(c * (size + 1), Len(array)))]

\* chunkArray(array, size)
chunkArray(array, size) ==
    [c \in 1..((Len(array) + size - 1) \div size) |->
        SubSeq(array, (c - 1) * size + 1, Min(c * size, Len(array)))]

\* A QueueResult; error is "none" when the operation succeeded.
QueueResult(operation, success, error) ==
    [operation |-> operation, success |-> success, error |-> error]

\* chunk.map(op => this.processOperation(op)): every operation of the chunk is
\* started, each at its first call (to the index).
startChunk(chunk) ==
    [k \in 1..Len(chunk) |-> [operation |-> chunk[k], state |-> "index", result |-> "none"]]

\* Results taken in the order the operations finished.
chunkResultsByCompletion(slots, order) ==
    [k \in 1..Len(slots) |-> slots[order[k]].result]

\* await Promise.all(...): the results of the chunk, by position.
chunkResults(slots, order) ==
    [k \in 1..Len(slots) |-> slots[k].result]

IdleQueue ==
    [pc |-> "idle", ops |-> <<>>, chunks |-> <<>>, c |-> 0, slots |-> <<>>,
     order |-> <<>>, results |-> <<>>,
     thrown |-> <<>>,       \* per operation: the message of the error it threw, or "none"
     attempted |-> {}]      \* the operations processOperation was called for

\* ------------------------------------------------------------ RateLimiter
Callers == 1..LimiterCallers

\* new RateLimiter(maxRequests, windowMs): requestTimes = []. now is
\* Date.now(); at[c] is where caller c of execute() stands, wake[c] the end of
\* its sleep, started the instants at which a task was started, order the
\* callers in the order of their calls of execute(). startedAt[c] is the
\* instant at which the task of caller c was started and outcome[c] what
\* became of the promise of fn(): pending until it settles, if it ever does.
NewLimiter(maxRequests) ==
    [maxRequests |-> maxRequests, requestTimes |-> <<>>, now |-> 0,
     at |-> [c \in Callers |-> "idle"], wake |-> [c \in Callers |-> 0],
     started |-> <<>>, order |-> <<>>,
     startedAt |-> [c \in Callers |-> 0],
     outcome |-> [c \in Callers |-> "pending"]]

IdleLimiter == NewLimiter(1)

\* requestTimes.filter(t => t > windowStart)
inWindow(times, windowStart) == SelectSeq(times, LAMBDA t : t > windowStart)

\* waitIfNeeded: the time to sleep, 0 when the caller does not sleep.
waitTime(times, maxRequests, now) ==
    IF Len(times) >= maxRequests
    THEN Max(times[1] + LimiterWindow - now + WaitBuffer, 0)
    ELSE 0

\* A limiter that gave the slot of a rejected task back.
requestTimesFreedOnFailure(times, startedAt, outcome) ==
    IF outcome = "rejected" /\ \E i \in DOMAIN times : times[i] = startedAt
    THEN LET k == CHOOSE i \in DOMAIN times : times[i] = startedAt
         IN  SubSeq(times, 1, k - 1) \o SubSeq(times, k + 1, Len(times))
    ELSE times

\* execute ends with `return fn()`: no catch, finally or then follows the
\* task, so requestTimes is what it was when the promise of fn() settles.
requestTimesAfterTask(times, startedAt, outcome) == times

\* ------------------------------------------------------------ withRetry
\* What isRateLimitError reads of a thrown value: whether it is an object,
\* its status, its code and whether its message contains "rate limit".
Thrown(isObject, status, code, rateLimitMessage) ==
    [isObject |-> isObject, status |-> status, code |-> code,
     rateLimitMessage |-> rateLimitMessage]

NoError == Thrown(FALSE, 0, "none", FALSE)

Errors ==
    {Thrown(TRUE, 429, "none", FALSE),
     Thrown(TRUE, 500, "rate_limited", FALSE),
     Thrown(TRUE, 500, "none", TRUE),
     Thrown(TRUE, 500, "none", FALSE),
     Thrown(TRUE, 404, "not_found", FALSE),
     Thrown(FALSE, 429, "rate_limited", TRUE)}

isRateLimitError(error) ==
    IF error.isObject
    THEN error.status = 429 \/ error.code = "rate_limited" \/ error.rateLimitMessage
    ELSE FALSE

\* The retryOn option: the default () => true, or isRateLimitError.
retryOn(option, error) ==
    IF option = "isRateLimitError" THEN isRateLimitError(error) ELSE TRUE

\* Math.pow(2, n)
RECURSIVE Pow2(_)
Pow2(n) == IF n = 0 THEN 1 ELSE 2 * Pow2(n - 1)

\* A back-off without the cap of maxDelayMs.
delayUncapped(attempt) == InitialDelay * Pow2(attempt)

\* Math.min(initialDelayMs * Math.pow(2, attempt), maxDelayMs)
delay(attempt) == Min(InitialDelay * Pow2(attempt), MaxDelay)

\* catch: if (attempt === maxRetries || !retryOn(error)) throw error
rethrowsWhenExhausted(attempt, maxRetries, option, error) ==
    attempt = maxRetries

\* A catch that goes on retrying when the retries are used up.
rethrowsUnclassifiedOnly(attempt, maxRetries, option, error) ==
    ~retryOn(option, error)

rethrows(attempt, maxRetries, option, error) ==
    attempt = maxRetries \/ ~retryOn(option, error)

\* No call of withRetry. calls counts the invocations of fn, errors are the
\* values fn threw, sleeps the delays slept, thrown the value re-raised,
\* result the value returned: the number of the invocation of fn it came from.
IdleRetry ==
    [pc |-> "idle", maxRetries |-> 0, retryOn |-> "default", attempt |-> 0,
     calls |-> 0, errors |-> <<>>, sleeps |-> <<>>, thrown |-> NoError, result |-> 0]

\* ------------------------------------------------------------ stop endpoint
\* No request to the stop endpoint yet. pc is the position of the request
\* being served, read the status its getSyncState returned, response the HTTP
\* status of the last answer, wroteOver the persisted status requestStop
\* was applied to.
IdleStop ==
    [pc |-> "idle", requests |-> 0, read |-> "none", response |-> 0,
     wroteOver |-> "none"]

\* ------------------------------------------------------------ Init
\* No call of a utility is in progress.
UtilIdle ==
    queue = IdleQueue /\ limiter = IdleLimiter /\ retry = IdleRetry /\ stopHandler = IdleStop

InitCommon ==
    /\ UtilIdle
    /\ \E cfg \in 1..3 :
          /\ docs = InitStore(cfg)
          /\ files = {docs[id].file : id \in {x \in AllIds : docs[x] # NoDoc /\ docs[x].file # NoFile}}
          /\ syncState = IF cfg = 1 THEN NoState ELSE CompletedState
    /\ \/ source = "notion" /\ channels = <<>>
       \/ source = "slack" /\ channels \in SlackLayouts
    /\ inv = [p \in Procs |-> IdleInv]
    /\ clock = 0
    /\ ghost = ZeroGhost

Init == InitCommon /\ procs = {1}
InitNotion == Init /\ source = "notion"
InitSlack == Init /\ source = "slack"

\* ------------------------------------------------------------ sync(): start
Caps == {0, NumItems - 1}

\* A resumed or fresh invocation's local state.
startedInv(cap, pc0, isResume, cursor, syncStartTime, stats, chanIndex, chanCursor) ==
    [IdleInv EXCEPT !.pc = pc0, !.maxItems = cap, !.isResume = isResume,
                    !.cursor = cursor, !.syncStartTime = syncStartTime, !.stats = stats,
                    !.hasMore = TRUE, !.currentChannelIndex = chanIndex,
                    !.currentChannelCursor = chanCursor]

\* An initialize that also resumes a failed run.
notionResumesFailed(saved) ==
    /\ saved.status \in {"running", "timeout", "failed"}
    /\ saved.cursor # Null
    /\ saved.syncStartTime # Null

\* NotionSync.initialize: resume iff status is running or timeout and both
\* cursor and syncStartTime are set.
notionResumes(saved) ==
    /\ saved.status \in {"running", "timeout"}
    /\ saved.cursor # Null
    /\ saved.syncStartTime # Null

\* SlackSync.initialize: resume iff status is running or timeout and
\* syncStartTime is set.
slackResumes(saved) ==
    /\ saved.status \in {"running", "timeout"}
    /\ saved.syncStartTime # Null

\* A persisted checkpoint: a cursor (of the stream or of a channel) and the
\* run's start time.
HasCheckpoint(saved) ==
    /\ saved.syncStartTime # Null
    /\ (saved.cursor # Null \/ saved.currentChannelCursor # Null)

\* The persisted state is the one a completed run of this behaviour left, and
\* that run had no failed item and no item cap.
PrevClean ==
    /\ syncState.status = "completed"
    /\ ghost.runStart # Null
    /\ ~ghost.itemErr
    /\ ~ghost.capUsed

\* NotionSync.sync up to the head of its while loop.
StartNotion(p) ==
    /\ source = "notion"
    /\ p \in procs
    /\ ~Active(p)
    /\ clock < MaxInvocations
    /\ clock' = clock + 1
    /\ \E cap \in Caps :
          IF notionResumes(syncState)
          THEN /\ SetInv(p, startedInv(cap, "n_loop", TRUE, syncState.cursor,
                                       syncState.syncStartTime, syncState.stats, 0, Null))
               /\ ghost' = [ghost EXCEPT !.resumed = TRUE, !.capUsed = @ \/ cap # 0,
                                         !.found = syncState.status, !.foundCkpt = TRUE]
               /\ UNCHANGED syncState
          ELSE /\ SetInv(p, startedInv(cap, "n_loop", FALSE, Null, clock', ZeroStats, 0, Null))
               /\ syncState' = startSync(syncState, clock')
               /\ ghost' = [ZeroGhost EXCEPT !.capUsed = cap # 0,
                                             !.found = syncState.status,
                                             !.foundCkpt = HasCheckpoint(syncState),
                                             !.orphaned = ghost.orphaned,
                                             !.prevClean = PrevClean]
    /\ UNCHANGED <<utilVars, source, channels, docs, files, procs>>

\* SlackSync.sync up to getAllChannels.
StartSlack(p) ==
    /\ source = "slack"
    /\ p \in procs
    /\ ~Active(p)
    /\ clock < MaxInvocations
    /\ clock' = clock + 1
    /\ \E cap \in Caps :
          IF slackResumes(syncState)
          THEN /\ SetInv(p, startedInv(cap, "s_channels", TRUE, Null,
                                       syncState.syncStartTime, syncState.stats,
                                       syncState.currentChannelIndex,
                                       syncState.currentChannelCursor))
               /\ ghost' = [ghost EXCEPT !.resumed = TRUE, !.capUsed = @ \/ cap # 0,
                                         !.found = syncState.status,
                                         !.foundCkpt = HasCheckpoint(syncState)]
               /\ UNCHANGED syncState
          ELSE /\ SetInv(p, startedInv(cap, "s_channels", FALSE, Null, clock', ZeroStats,
                                       0, Null))
               /\ syncState' = startSync(syncState, clock')
               /\ ghost' = [ZeroGhost EXCEPT !.capUsed = cap # 0,
                                             !.found = syncState.status,
                                             !.foundCkpt = HasCheckpoint(syncState),
                                             !.orphaned = ghost.orphaned,
                                             !.prevClean = PrevClean]
    /\ UNCHANGED <<utilVars, source, channels, docs, files, procs>>

\* shouldStop(): the kill switch or the elapsed time.
shouldStop(p) == syncState.stopRequested \/ L(p).timedOut

\* ------------------------------------------------------------ Notion: stream loop
\* The head of sync()'s while loop: leave it when hasMore is false, pause when
\* shouldStop() holds, else fetch the next chunk.
NotionLoop(p) ==
    /\ L(p).pc = "n_loop"
    /\ SetInv(p, IF ~L(p).hasMore THEN [L(p) EXCEPT !.pc = "del_query"]
                 ELSE IF shouldStop(p) THEN [L(p) EXCEPT !.pc = "n_stop_ckpt", !.sawStop = TRUE]
                 ELSE [L(p) EXCEPT !.pc = "n_fetch"])
    /\ ghost' = [ghost EXCEPT !.stopped = @ \/ (L(p).hasMore /\ shouldStop(p))]
    /\ UNCHANGED <<utilVars, source, channels, syncState, docs, files, procs, clock>>

\* The paused branch: saveCheckpoint, then setTimeoutStatus, then return.
NotionStopCheckpoint(p) ==
    /\ L(p).pc = "n_stop_ckpt"
    /\ syncState' = saveCheckpoint(syncState, L(p).cursor, L(p).stats)
    /\ SetInv(p, [L(p) EXCEPT !.pc = "stop_status"])
    /\ UNCHANGED <<utilVars, source, channels, docs, files, procs, clock, ghost>>

SetTimeoutStatus(p) ==
    /\ L(p).pc = "stop_status"
    /\ syncState' = setTimeoutStatus(syncState)
    /\ SetInv(p, IdleInv)
    /\ ghost' = [ghost EXCEPT !.result = SyncResult("paused", L(p).stats)]
    /\ UNCHANGED <<utilVars, source, channels, docs, files, procs, clock>>

\* processChunk: fetchNotionChunk succeeded.
NotionFetch(p) ==
    /\ L(p).pc = "n_fetch"
    /\ LET size == notionChunkSize(L(p).maxItems, L(p).stats.processed)
       IN  /\ size >= 1
           /\ SetInv(p, notionNextPage(
                  [L(p) EXCEPT !.chunk = FetchItems(L(p).cursor, size), !.idx = 1,
                               !.fetched = TRUE,
                               !.respHasMore = FetchHasMore(L(p).cursor, size),
                               !.respNext = FetchNext(L(p).cursor, size)]))
    /\ UNCHANGED <<utilVars, source, channels, syncState, docs, files, procs, clock, ghost>>

\* sync(): saveCheckpoint after the chunk.
NotionCheckpoint(p) ==
    /\ L(p).pc = "n_ckpt"
    /\ syncState' = saveCheckpoint(syncState, L(p).cursor, L(p).stats)
    /\ SetInv(p, [L(p) EXCEPT !.pc = "n_loop", !.dirty = FALSE])
    /\ UNCHANGED <<utilVars, source, channels, docs, files, procs, clock, ghost>>

\* A call outside the per-item try blocks threw (fetchNotionChunk and
\* getAllChannels out of withRetry, getStaleDocuments): the exception reaches
\* sync()'s catch.
RunFail(p) ==
    /\ L(p).pc \in {"n_fetch", "s_channels", "del_query"}
    /\ SetInv(p, [L(p) EXCEPT !.pc = "failing"])
    /\ UNCHANGED <<utilVars, source, channels, syncState, docs, files, procs, clock, ghost>>

\* sync()'s catch: failSync, then return.
FailSync(p) ==
    /\ L(p).pc = "failing"
    /\ syncState' = failSync(syncState)
    /\ SetInv(p, IdleInv)
    /\ ghost' = [ghost EXCEPT !.result = SyncResult("failed", L(p).stats)]
    /\ UNCHANGED <<utilVars, source, channels, docs, files, procs, clock>>

\* ------------------------------------------------------------ one item
\* processPage / processMessage: getDocument and the choice of the branch.
ClassifyItem(p) ==
    /\ L(p).pc = "item"
    /\ LET existing == docs[L(p).item]
           class == Classify(source, L(p).item, existing)
       IN  /\ SetInv(p, [L(p) EXCEPT !.existing = existing, !.dirty = TRUE, !.delStatus = 0,
                                    !.pc = CASE class \in {"new", "incomplete"} -> "new_save"
                                             [] class = "updated" -> "upd_render"
                                             [] OTHER -> "mark_seen"])
           /\ ghost' = [ghost EXCEPT !.seen[L(p).item] = Min(@ + 1, 2)]
    /\ UNCHANGED <<utilVars, source, channels, syncState, docs, files, procs, clock>>

\* syncNewPage / syncNewMessage: content rendered, saveDocument without fileId.
NewSave(p) ==
    /\ L(p).pc = "new_save"
    /\ docs' = [docs EXCEPT ![L(p).item] = newDoc(source, L(p).item, L(p).syncStartTime)]
    /\ SetInv(p, [L(p) EXCEPT !.pc = "new_upload"])
    /\ UNCHANGED <<utilVars, source, channels, syncState, files, procs, clock, ghost>>

\* uploadSingleFile succeeded: the file exists in the vector store.
Upload(p) ==
    /\ L(p).pc \in {"new_upload", "upd_upload"}
    /\ files' = files \cup {createFile}
    /\ SetInv(p, [L(p) EXCEPT !.fileId = createFile,
                              !.pc = IF @ = "new_upload" THEN "new_attach" ELSE "upd_write"])
    /\ UNCHANGED <<utilVars, source, channels, syncState, docs, procs, clock, ghost>>

\* syncNewPage / syncNewMessage: updateDocument with the fileId; the caller
\* counts the item as added.
NewAttach(p) ==
    /\ L(p).pc = "new_attach"
    /\ docs[L(p).item] # NoDoc
    /\ docs' = [docs EXCEPT ![L(p).item].file = L(p).fileId]
    /\ SetInv(p, itemEnd(source, L(p), "added", TRUE))
    /\ UNCHANGED <<utilVars, source, channels, syncState, files, procs, clock, ghost>>

\* syncUpdatedPage / syncUpdatedMessage: content rendered and hashed; an equal
\* hash ends in a metadata-only updateDocument.
UpdateRender(p) ==
    /\ L(p).pc = "upd_render"
    /\ IF calculateContentHash(ContentOf(L(p).item)) = L(p).existing.contentHash
       THEN /\ docs[L(p).item] # NoDoc
            /\ docs' = [docs EXCEPT ![L(p).item] =
                           metadataUpdate(source, L(p).item, @, L(p).syncStartTime)]
            /\ SetInv(p, itemEnd(source, L(p), "updated", TRUE))
       ELSE /\ SetInv(p, [L(p) EXCEPT !.pc = "upd_delete"])
            /\ UNCHANGED docs
    /\ UNCHANGED <<utilVars, source, channels, syncState, files, procs, clock, ghost>>

\* deleteSingleFile of the superseded file: on success the upload follows, an
\* exception is an item error.
UpdateDelete(p) ==
    /\ L(p).pc = "upd_delete"
    /\ \E st \in IndexResponses(L(p).existing.file) :
          IF deleteFile(indexStatus(L(p).existing.file), st) = "ok"
          THEN /\ files' = files \ {L(p).existing.file}
               /\ SetInv(p, [L(p) EXCEPT !.pc = "upd_upload", !.delStatus = st])
               /\ UNCHANGED ghost
          ELSE /\ SetInv(p, [itemEnd(source, L(p), "errored", FALSE) EXCEPT !.delStatus = st])
               /\ ghost' = [ghost EXCEPT !.itemErr = TRUE, !.failed = @ \cup {L(p).item}]
               /\ UNCHANGED files
    /\ UNCHANGED <<utilVars, source, channels, syncState, docs, procs, clock>>

\* updateDocument after the re-upload; the caller counts the item as updated.
UpdateWrite(p) ==
    /\ L(p).pc = "upd_write"
    /\ docs[L(p).item] # NoDoc
    /\ docs' = [docs EXCEPT ![L(p).item] =
                   contentUpdate(source, L(p).item, @, L(p).fileId, L(p).syncStartTime)]
    /\ SetInv(p, itemEnd(source, L(p), "updated", TRUE))
    /\ UNCHANGED <<utilVars, source, channels, syncState, files, procs, clock, ghost>>

\* The unchanged branch: markDocumentSeen.
MarkSeen(p) ==
    /\ L(p).pc = "mark_seen"
    /\ docs[L(p).item] # NoDoc
    /\ docs' = [docs EXCEPT ![L(p).item] = markDocumentSeen(@, clock)]
    /\ SetInv(p, itemEnd(source, L(p), "unchanged", FALSE))
    /\ UNCHANGED <<utilVars, source, channels, syncState, files, procs, clock, ghost>>

\* An item error that is not caught: it is counted and reaches sync()'s catch.
ItemErrorAborts(p) ==
    /\ L(p).pc \in {"new_save", "new_upload", "upd_render", "upd_upload"}
    /\ SetInv(p, [L(p) EXCEPT !.pc = "failing", !.stats.errored = @ + 1])
    /\ ghost' = [ghost EXCEPT !.itemErr = TRUE, !.failed = @ \cup {L(p).item}]
    /\ UNCHANGED <<utilVars, source, channels, syncState, docs, files, procs, clock>>

\* A call to the source or to the index throws inside the item (the content
\* fetch, uploadSingleFile, each after its retries): the
\* catch of processChunk / processChannel counts it in stats.errored and goes
\* on with the next item.
ItemError(p) ==
    /\ L(p).pc \in {"new_save", "new_upload", "upd_render", "upd_upload"}
    /\ SetInv(p, itemEnd(source, L(p), "errored", FALSE))
    /\ ghost' = [ghost EXCEPT !.itemErr = TRUE, !.failed = @ \cup {L(p).item}]
    /\ UNCHANGED <<utilVars, source, channels, syncState, docs, files, procs, clock>>

\* ------------------------------------------------------------ delete phase
\* deleteStaleDocuments: the query.
DeleteQuery(p) ==
    /\ L(p).pc = "del_query"
    /\ SetInv(p, [L(p) EXCEPT !.pc = "del_file",
                              !.stale = getStaleDocuments(docs, L(p).syncStartTime)])
    /\ UNCHANGED <<utilVars, source, channels, syncState, docs, files, procs, clock, ghost>>

\* deleteStaleDocuments: deleteSingleFile of the next stale record (skipped
\* for a record without file id); an exception is caught and logged (Slack
\* also counts it in stats.errored) and the loop goes on with the next record.
DeleteFile(p) ==
    /\ L(p).pc = "del_file"
    /\ L(p).stale # <<>>
    /\ LET f == Head(L(p).stale).file
       IN  IF f = NoFile
           THEN /\ SetInv(p, [L(p) EXCEPT !.pc = "del_doc", !.delStatus = 0])
                /\ UNCHANGED <<files, ghost>>
           ELSE \E st \in IndexResponses(f) :
                   IF deleteFile(indexStatus(f), st) = "ok"
                   THEN /\ files' = files \ {f}
                        /\ SetInv(p, [L(p) EXCEPT !.pc = "del_doc", !.delStatus = st])
                        /\ UNCHANGED ghost
                   ELSE /\ SetInv(p, [L(p) EXCEPT
                               !.stale = Tail(@), !.delStatus = st,
                               !.stats = IF source = "slack"
                                         THEN [@ EXCEPT !.errored = @ + 1] ELSE @])
                        /\ ghost' = [ghost EXCEPT !.delErr = TRUE]
                        /\ UNCHANGED files
    /\ UNCHANGED <<utilVars, source, channels, syncState, docs, procs, clock>>

\* deleteStaleDocuments: deleteDocumentBySource threw; the catch logs it
\* (Slack also counts it in stats.errored) and the loop goes on.
DeleteError(p) ==
    /\ L(p).pc = "del_doc"
    /\ L(p).stale # <<>>
    /\ SetInv(p, [L(p) EXCEPT !.pc = "del_file", !.stale = Tail(@),
                              !.stats = IF source = "slack"
                                        THEN [@ EXCEPT !.errored = @ + 1] ELSE @])
    /\ ghost' = [ghost EXCEPT !.delErr = TRUE]
    /\ UNCHANGED <<utilVars, source, channels, syncState, docs, files, procs, clock>>

\* deleteStaleDocuments: deleteDocumentBySource, counted as deleted.
DeleteDoc(p) ==
    /\ L(p).pc = "del_doc"
    /\ docs' = [docs EXCEPT ![Head(L(p).stale).id] = NoDoc]
    /\ SetInv(p, [L(p) EXCEPT !.pc = "del_file", !.stale = Tail(@),
                              !.deleteCount = @ + 1,
                              !.stats = IF source = "slack"
                                        THEN [@ EXCEPT !.deleted = @ + 1] ELSE @])
    /\ ghost' = [ghost EXCEPT
                     !.removed = @ \cup {Head(L(p).stale).id},
                     !.wrongDelete = @ \/ ~IsStale(docs[Head(L(p).stale).id], L(p).syncStartTime)]
    /\ UNCHANGED <<utilVars, source, channels, syncState, files, procs, clock>>

\* The end of the delete phase (Notion: state.stats.deleted = deleteCount).
DeleteDone(p) ==
    /\ L(p).pc = "del_file"
    /\ L(p).stale = <<>>
    /\ SetInv(p, [L(p) EXCEPT !.pc = "complete", !.delStatus = 0,
                              !.stats = IF source = "notion"
                                        THEN [@ EXCEPT !.deleted = L(p).deleteCount] ELSE @])
    /\ UNCHANGED <<utilVars, source, channels, syncState, docs, files, procs, clock, ghost>>

\* completeSync (Notion passes state.stats, SlackSync.complete passes none),
\* then return.
Complete(p) ==
    /\ L(p).pc = "complete"
    /\ syncState' = completeSync(syncState, source = "notion", L(p).stats)
    /\ SetInv(p, IdleInv)
    /\ ghost' = [ghost EXCEPT !.runStart = L(p).syncStartTime,
                              !.result = SyncResult("completed", L(p).stats)]
    /\ UNCHANGED <<utilVars, source, channels, docs, files, procs, clock>>

\* ------------------------------------------------------------ Slack: channel loop
\* getAllChannels succeeded; startIndex = state.currentChannelIndex || 0.
SlackChannels(p) ==
    /\ L(p).pc = "s_channels"
    /\ SetInv(p, [L(p) EXCEPT !.pc = "s_loop", !.startIndex = L(p).currentChannelIndex,
                              !.i = L(p).currentChannelIndex, !.totalProcessed = 0])
    /\ UNCHANGED <<utilVars, source, channels, syncState, docs, files, procs, clock, ghost>>

\* The head of sync()'s for loop over the channels (i counts from 0): the end
\* of the list, the stop check, the cap, a blacklisted channel, or the entry
\* into processChannel.
SlackLoop(p) ==
    /\ L(p).pc = "s_loop"
    /\ LET l == L(p)
       IN  SetInv(p,
             IF l.i >= Len(channels) THEN [l EXCEPT !.pc = "s_after"]
             ELSE IF shouldStop(p)
             THEN [l EXCEPT !.pc = "s_ckpt1", !.ckIndex = l.i, !.ckCursor = Null,
                            !.ckRet = "stop_status", !.sawStop = TRUE]
             ELSE IF l.maxItems # 0 /\ l.totalProcessed >= l.maxItems
             THEN [l EXCEPT !.pc = "s_after", !.sawCap = TRUE]
             ELSE IF channels[l.i + 1].blacklisted
             THEN [l EXCEPT !.i = @ + 1]
             ELSE [l EXCEPT !.pc = "s_chan", !.processed = 0, !.hasMore = TRUE,
                            !.currentCursor = IF l.i = l.startIndex
                                              THEN l.currentChannelCursor ELSE Null,
                            !.chanMax = IF l.maxItems # 0
                                        THEN l.maxItems - l.totalProcessed ELSE 0])
    /\ ghost' = [ghost EXCEPT !.stopped = @ \/ (L(p).i < Len(channels) /\ shouldStop(p))]
    /\ UNCHANGED <<utilVars, source, channels, syncState, docs, files, procs, clock>>

\* The head of processChannel's while loop.  Leaving the loop (no more
\* history, shouldStop(), or the cap) returns to sync(), which adds the count
\* and saves the checkpoint of the next channel, i + 1.
SlackChan(p) ==
    /\ L(p).pc = "s_chan"
    /\ LET l == L(p)
           stop == l.hasMore /\ shouldStop(p)
           cap == l.hasMore /\ ~shouldStop(p) /\ l.chanMax # 0 /\ l.processed >= l.chanMax
       IN  SetInv(p,
             IF ~l.hasMore \/ stop \/ cap
             THEN [l EXCEPT !.pc = "s_ckpt1", !.totalProcessed = @ + l.processed,
                            !.ckIndex = l.i + 1, !.ckCursor = Null, !.ckRet = "s_loop",
                            !.i = @ + 1,
                            !.sawStop = @ \/ stop, !.sawCap = @ \/ cap]
             ELSE [l EXCEPT !.pc = "s_fetch"])
    /\ ghost' = [ghost EXCEPT !.stopped = @ \/ (L(p).hasMore /\ shouldStop(p))]
    /\ UNCHANGED <<utilVars, source, channels, syncState, docs, files, procs, clock>>

\* conversations.history succeeded: an empty page ends the channel, else the
\* messages are processed in order.
SlackFetch(p) ==
    /\ L(p).pc = "s_fetch"
    /\ LET l == L(p)
           msgs == channels[l.i + 1].msgs
           page == HistoryItems(msgs, l.currentCursor)
       IN  SetInv(p,
             IF page = <<>> THEN [l EXCEPT !.pc = "s_chan", !.hasMore = FALSE, !.fetched = TRUE]
             ELSE slackNextMessage(
                      [l EXCEPT !.chunk = page, !.idx = 1, !.fetched = TRUE,
                                !.respHasMore = HistoryHasMore(msgs, l.currentCursor),
                                !.respNext = HistoryNext(msgs, l.currentCursor)]))
    /\ UNCHANGED <<utilVars, source, channels, syncState, docs, files, procs, clock, ghost>>

\* conversations.history threw out of withRetry: processChannel's catch logs
\* it and sets hasMore = false.
SlackFetchError(p) ==
    /\ L(p).pc = "s_fetch"
    /\ SetInv(p, [L(p) EXCEPT !.pc = "s_chan", !.hasMore = FALSE, !.fetched = TRUE])
    /\ ghost' = [ghost EXCEPT !.fetchErr = TRUE]
    /\ UNCHANGED <<utilVars, source, channels, syncState, docs, files, procs, clock>>

\* SlackSync.saveCheckpoint, first write: state.currentChannelIndex and
\* state.currentChannelCursor are set, then firestore.saveCheckpoint.
SlackCheckpoint1(p) ==
    /\ L(p).pc = "s_ckpt1"
    /\ syncState' = saveCheckpoint(syncState, L(p).ckCursor, L(p).stats)
    /\ SetInv(p, [L(p) EXCEPT !.pc = "s_ckpt2", !.currentChannelIndex = L(p).ckIndex,
                              !.currentChannelCursor = L(p).ckCursor])
    /\ UNCHANGED <<utilVars, source, channels, docs, files, procs, clock, ghost>>

\* SlackSync.saveCheckpoint, second write: the channel index and cursor.
SlackCheckpoint2(p) ==
    /\ L(p).pc = "s_ckpt2"
    /\ syncState' = updateSyncState(syncState,
                        [currentChannelIndex |-> L(p).ckIndex,
                         currentChannelCursor |-> L(p).ckCursor])
    /\ SetInv(p, [L(p) EXCEPT !.pc = L(p).ckRet, !.dirty = FALSE])
    /\ UNCHANGED <<utilVars, source, channels, docs, files, procs, clock, ghost>>

\* After the for loop: allChannelsProcessed decides on the delete phase.
allChannelsProcessed(l) ==
    l.maxItems = 0 /\ l.currentChannelIndex >= Len(channels) - 1

SlackAfter(p) ==
    /\ L(p).pc = "s_after"
    /\ SetInv(p, [L(p) EXCEPT !.pc = IF allChannelsProcessed(L(p))
                                     THEN "del_query" ELSE "complete"])
    /\ UNCHANGED <<utilVars, source, channels, syncState, docs, files, procs, clock, ghost>>

\* ------------------------------------------------------------ environment
\* The invocation has processed a chunk and has written the checkpoint after
\* its last item: it is at the head of a loop again.
AfterCheckpoint(l) ==
    l.fetched /\ ~l.dirty /\ l.pc \in {"n_loop", "s_chan", "s_loop"}

\* The platform kills the invocation between two awaited calls: its local
\* state is lost, the persisted state stays.
Crash(p) ==
    /\ Active(p)
    /\ SetInv(p, IdleInv)
    /\ ghost' = [ghost EXCEPT !.ckptKill = @ \/ AfterCheckpoint(L(p)),
                              !.midKill = @ \/ ~AfterCheckpoint(L(p)),
                              !.orphaned = IF L(p).pc \in {"new_upload", "new_attach"}
                                           THEN @ \cup {L(p).item} ELSE @]
    /\ UNCHANGED <<utilVars, source, channels, syncState, docs, files, procs, clock>>

\* Date.now() - this.startTime passes the runtime threshold; shouldStop()
\* reads the time at the heads of the loops.
Timeout(p) ==
    /\ L(p).pc \in {"n_loop", "s_loop", "s_chan"}
    /\ ~L(p).timedOut
    /\ SetInv(p, [L(p) EXCEPT !.timedOut = TRUE])
    /\ UNCHANGED <<utilVars, source, channels, syncState, docs, files, procs, clock, ghost>>

\* stopNotionSync / stopSlackSync when no step of sync() falls between its
\* getSyncState and its requestStop: accepted only while the status is running.
RequestStop ==
    /\ syncState.status = "running"
    /\ ~syncState.stopRequested
    /\ syncState' = requestStop(syncState)
    /\ UNCHANGED <<utilVars, source, channels, docs, files, inv, procs, clock, ghost>>

\* ------------------------------------------------------------ specification
Step(p) ==
    \/ StartNotion(p) \/ NotionLoop(p) \/ NotionStopCheckpoint(p) \/ NotionFetch(p)
    \/ NotionCheckpoint(p)
    \/ StartSlack(p) \/ SlackChannels(p) \/ SlackLoop(p) \/ SlackChan(p) \/ SlackFetch(p)
    \/ SlackFetchError(p) \/ SlackCheckpoint1(p) \/ SlackCheckpoint2(p) \/ SlackAfter(p)
    \/ SetTimeoutStatus(p) \/ RunFail(p) \/ FailSync(p)
    \/ ClassifyItem(p) \/ NewSave(p) \/ Upload(p) \/ NewAttach(p) \/ UpdateRender(p)
    \/ UpdateDelete(p) \/ UpdateWrite(p) \/ MarkSeen(p) \/ ItemError(p)
    \/ DeleteQuery(p) \/ DeleteFile(p) \/ DeleteError(p) \/ DeleteDoc(p) \/ DeleteDone(p)
    \/ Complete(p)
    \/ Crash(p) \/ Timeout(p)

Next == (\E p \in Procs : Step(p)) \/ RequestStop

Spec == Init /\ [][Next]_vars
SpecNotion == InitNotion /\ [][Next]_vars
SpecSlack == InitSlack /\ [][Next]_vars

\* Two invocations of sync() for the same source (two requests to the HTTP
\* function), without kills, failures or stop requests.
InitConc == InitCommon /\ procs = Procs

StepConc(p) ==
    \/ StartNotion(p) \/ NotionLoop(p) \/ NotionFetch(p) \/ NotionCheckpoint(p)
    \/ StartSlack(p) \/ SlackChannels(p) \/ SlackLoop(p) \/ SlackChan(p) \/ SlackFetch(p)
    \/ SlackCheckpoint1(p) \/ SlackCheckpoint2(p) \/ SlackAfter(p)
    \/ ClassifyItem(p) \/ NewSave(p) \/ Upload(p) \/ NewAttach(p) \/ UpdateRender(p)
    \/ UpdateDelete(p) \/ UpdateWrite(p) \/ MarkSeen(p)
    \/ DeleteQuery(p) \/ DeleteFile(p) \/ DeleteDoc(p) \/ DeleteDone(p)
    \/ Complete(p)

NextConc == \E p \in Procs : StepConc(p)

SpecConc == InitConc /\ [][NextConc]_vars

\* ------------------------------------------------------------ re-invoked runs
\* The runtime threshold passes in an invocation that another invocation can
\* follow.
TimeoutReinvoked(p) ==
    /\ clock < MaxInvocations
    /\ Timeout(p)

\* The steps of an invocation that is neither killed nor stopped by request
\* and meets no failure outside an item.
StepLive(p) ==
    \/ StartNotion(p) \/ NotionLoop(p) \/ NotionStopCheckpoint(p) \/ NotionFetch(p)
    \/ NotionCheckpoint(p)
    \/ StartSlack(p) \/ SlackChannels(p) \/ SlackLoop(p) \/ SlackChan(p) \/ SlackFetch(p)
    \/ SlackCheckpoint1(p) \/ SlackCheckpoint2(p) \/ SlackAfter(p)
    \/ SetTimeoutStatus(p)
    \/ ClassifyItem(p) \/ NewSave(p) \/ Upload(p) \/ NewAttach(p) \/ UpdateRender(p)
    \/ UpdateDelete(p) \/ UpdateWrite(p) \/ MarkSeen(p) \/ ItemError(p)
    \/ DeleteQuery(p) \/ DeleteFile(p) \/ DeleteDoc(p) \/ DeleteDone(p)
    \/ Complete(p)
    \/ TimeoutReinvoked(p)

NextLive == \E p \in Procs : StepLive(p)

\* Every awaited call returns and sync() is invoked again while invocations
\* remain.
SpecLive == Init /\ [][NextLive]_vars /\ WF_vars(NextLive)

\* ------------------------------------------------------------ stop endpoint: steps
\* stopNotionSync / stopSlackSync up to the call of requestStop: getSyncState,
\* and the answer 400 unless the status read is running (the status of a
\* source without state is undefined).
StopRead ==
    /\ stopHandler.pc = "idle"
    /\ stopHandler.requests < MaxStopRequests
    /\ stopHandler' =
          IF syncState.status # "running"
          THEN [stopHandler EXCEPT !.requests = @ + 1, !.read = syncState.status,
                                   !.response = 400]
          ELSE [stopHandler EXCEPT !.requests = @ + 1, !.read = syncState.status,
                                   !.pc = "accepted", !.response = 0]
    /\ UNCHANGED <<syncVars, queue, limiter, retry>>

\* stopNotionSync / stopSlackSync: requestStop, then the answer 200.
StopWrite ==
    /\ stopHandler.pc = "accepted"
    /\ syncState' = requestStop(syncState)
    /\ stopHandler' = [stopHandler EXCEPT !.pc = "idle", !.response = 200,
                                          !.wroteOver = syncState.status]
    /\ UNCHANGED <<queue, limiter, retry, source, channels, docs, files, inv, procs,
                   clock, ghost>>

\* The steps of a Notion invocation.
NotionStep(p) ==
    \/ StartNotion(p) \/ NotionLoop(p) \/ NotionStopCheckpoint(p) \/ NotionFetch(p)
    \/ NotionCheckpoint(p)
    \/ SetTimeoutStatus(p) \/ RunFail(p) \/ FailSync(p)
    \/ ClassifyItem(p) \/ NewSave(p) \/ Upload(p) \/ NewAttach(p) \/ UpdateRender(p)
    \/ UpdateDelete(p) \/ UpdateWrite(p) \/ MarkSeen(p) \/ ItemError(p)
    \/ DeleteQuery(p) \/ DeleteFile(p) \/ DeleteError(p) \/ DeleteDoc(p) \/ DeleteDone(p)
    \/ Complete(p)
    \/ Crash(p) \/ Timeout(p)

\* The stop endpoint next to the invocations of sync(): its two awaited calls
\* are two steps, and a step of sync() can fall between them.
NextStop == (\E p \in Procs : NotionStep(p)) \/ StopRead \/ StopWrite

SpecStop == InitNotion /\ [][NextStop]_vars

\* ------------------------------------------------------------ processQueue: steps
\* The sync state is not involved in a call of a utility.
SyncIdle ==
    /\ source = "notion"
    /\ channels = <<>>
    /\ syncState = NoState
    /\ docs = InitStore(1)
    /\ files = {}
    /\ inv = [p \in Procs |-> IdleInv]
    /\ procs = {}
    /\ clock = 0
    /\ ghost = ZeroGhost

\* The place in the operation list of slot k of the current chunk.
opIndex(k) == (queue.c - 1) * QueueConcurrency + k

\* processQueue(operations): the list is cut into chunks and the first chunk
\* is started; an empty list returns [].
ProcessQueue ==
    /\ queue.pc = "idle"
    /\ \E ops \in QueueInputs :
          LET chunks == chunkArray(ops, QueueConcurrency)
              q == [IdleQueue EXCEPT !.ops = ops, !.chunks = chunks,
                                     !.thrown = [k \in 1..Len(ops) |-> "none"]]
          IN  queue' = IF chunks = <<>> THEN [q EXCEPT !.pc = "returned"]
                       ELSE [q EXCEPT !.pc = "chunk", !.c = 1,
                                      !.slots = startChunk(chunks[1]),
                                      !.attempted = 1..Len(chunks[1])]
    /\ UNCHANGED <<syncVars, limiter, retry, stopHandler>>

\* An operation finished inside processOperation: its result is in its slot.
finishOp(k, success, error) ==
    [queue EXCEPT !.slots[k].state = "done",
                  !.slots[k].result = QueueResult(queue.slots[k].operation, success, error),
                  !.order = Append(@, k),
                  !.thrown[opIndex(k)] = error]

\* processOperation: uploadFile / deleteFile returns, or throws into the
\* catch, which returns a failed result with the error's message.
OpIndexCall(k) ==
    /\ queue.pc = "chunk"
    /\ k \in DOMAIN queue.slots
    /\ queue.slots[k].state = "index"
    /\ \/ queue' = [queue EXCEPT !.slots[k].state = "store"]
       \/ queue' = finishOp(k, FALSE, "index call failed")
    /\ UNCHANGED <<syncVars, limiter, retry, stopHandler>>

\* processOperation: updateDocumentFileId / deleteDocument returns and the
\* operation succeeds, or throws into the catch.
OpStoreCall(k) ==
    /\ queue.pc = "chunk"
    /\ k \in DOMAIN queue.slots
    /\ queue.slots[k].state = "store"
    /\ \/ queue' = finishOp(k, TRUE, "none")
       \/ queue' = finishOp(k, FALSE, "store call failed")
    /\ UNCHANGED <<syncVars, limiter, retry, stopHandler>>

\* Promise.all has resolved: results.push(...chunkResults), then the next
\* chunk is started, or processQueue returns.
ChunkDone ==
    /\ queue.pc = "chunk"
    /\ \A k \in DOMAIN queue.slots : queue.slots[k].state = "done"
    /\ LET results == queue.results \o chunkResults(queue.slots, queue.order)
       IN  queue' =
             IF queue.c < Len(queue.chunks)
             THEN [queue EXCEPT !.results = results, !.c = @ + 1, !.order = <<>>,
                                !.slots = startChunk(queue.chunks[queue.c + 1]),
                                !.attempted = @ \cup
                                    {queue.c * QueueConcurrency + k :
                                        k \in 1..Len(queue.chunks[queue.c + 1])}]
             ELSE [queue EXCEPT !.results = results, !.pc = "returned", !.slots = <<>>,
                                !.order = <<>>]
    /\ UNCHANGED <<syncVars, limiter, retry, stopHandler>>

InitQueue == SyncIdle /\ UtilIdle

NextQueue ==
    \/ ProcessQueue
    \/ \E k \in 1..QueueConcurrency : OpIndexCall(k)
    \/ \E k \in 1..QueueConcurrency : OpStoreCall(k)
    \/ ChunkDone

SpecQueue == InitQueue /\ [][NextQueue]_vars

\* ------------------------------------------------------------ RateLimiter: steps
\* execute(fn) is called: waitIfNeeded runs to its first await. It drops the
\* old timestamps and either starts to sleep or returns, and execute is
\* suspended at `await this.waitIfNeeded()` in both cases.
Execute(c) ==
    /\ limiter.at[c] = "idle"
    /\ LET times == inWindow(limiter.requestTimes, limiter.now - LimiterWindow)
           w == waitTime(times, limiter.maxRequests, limiter.now)
       IN  limiter' = [limiter EXCEPT !.requestTimes = times,
                                      !.at[c] = IF w > 0 THEN "sleeping" ELSE "waited",
                                      !.wake[c] = limiter.now + w,
                                      !.order = Append(@, c)]
    /\ UNCHANGED <<syncVars, queue, retry, stopHandler>>

\* The timer of sleep(waitTime) fires, not before its time: waitIfNeeded
\* returns without looking at requestTimes again.
Wake(c) ==
    /\ limiter.at[c] = "sleeping"
    /\ limiter.now >= limiter.wake[c]
    /\ limiter' = [limiter EXCEPT !.at[c] = "waited"]
    /\ UNCHANGED <<syncVars, queue, retry, stopHandler>>

\* execute resumes after the await: requestTimes.push(Date.now()); return fn().
StartTask(c) ==
    /\ limiter.at[c] = "waited"
    /\ limiter' = [limiter EXCEPT !.requestTimes = Append(@, limiter.now),
                                  !.started = Append(@, limiter.now),
                                  !.startedAt[c] = limiter.now,
                                  !.at[c] = "started"]
    /\ UNCHANGED <<syncVars, queue, retry, stopHandler>>

\* The promise of fn() settles: the task resolves, or it throws. A task that
\* never completes never takes this step.
TaskSettles(c) ==
    /\ limiter.at[c] = "started"
    /\ limiter.outcome[c] = "pending"
    /\ \E o \in {"resolved", "rejected"} :
          limiter' = [limiter EXCEPT
                         !.outcome[c] = o,
                         !.requestTimes =
                             requestTimesAfterTask(@, limiter.startedAt[c], o)]
    /\ UNCHANGED <<syncVars, queue, retry, stopHandler>>

\* Date.now() advances. A continuation that is ready to resume runs before
\* any timer and before the clock moves on.
Tick ==
    /\ limiter.now < LimiterMaxTime
    /\ \A c \in Callers : limiter.at[c] # "waited"
    /\ limiter' = [limiter EXCEPT !.now = @ + 1]
    /\ UNCHANGED <<syncVars, queue, retry, stopHandler>>

InitLimiter ==
    /\ SyncIdle
    /\ queue = IdleQueue
    /\ retry = IdleRetry
    /\ stopHandler = IdleStop
    /\ \E n \in 1..LimiterMaxRequests : limiter = NewLimiter(n)

NextLimiter ==
    \/ \E c \in Callers : Execute(c)
    \/ \E c \in Callers : Wake(c)
    \/ \E c \in Callers : StartTask(c)
    \/ \E c \in Callers : TaskSettles(c)
    \/ Tick

SpecLimiter == InitLimiter /\ [][NextLimiter]_vars

\* Time passes, timers fire and resumed continuations run.
SpecLimiterLive ==
    /\ SpecLimiter
    /\ WF_vars(Tick)
    /\ \A c \in Callers : WF_vars(Wake(c)) /\ WF_vars(StartTask(c))

\* ------------------------------------------------------------ withRetry: steps
\* withRetry(fn, options): the loop starts with attempt = 0 and invokes fn.
WithRetry ==
    /\ retry.pc = "idle"
    /\ \E m \in 0..MaxRetriesOption, o \in {"default", "isRateLimitError"} :
          retry' = [IdleRetry EXCEPT !.pc = "calling", !.maxRetries = m,
                                     !.retryOn = o, !.calls = 1]
    /\ UNCHANGED <<syncVars, queue, limiter, stopHandler>>

\* return await fn(): fn resolves.
FnReturns ==
    /\ retry.pc = "calling"
    /\ retry' = [retry EXCEPT !.pc = "returned", !.result = retry.calls]
    /\ UNCHANGED <<syncVars, queue, limiter, stopHandler>>

\* fn rejects: the catch re-raises the error, or starts sleep(delay).
FnThrows ==
    /\ retry.pc = "calling"
    /\ \E error \in Errors :
          retry' =
            IF rethrows(retry.attempt, retry.maxRetries, retry.retryOn, error)
            THEN [retry EXCEPT !.pc = "thrown", !.errors = Append(@, error),
                               !.thrown = error]
            ELSE [retry EXCEPT !.pc = "sleeping", !.errors = Append(@, error),
                               !.sleeps = Append(@, delay(retry.attempt))]
    /\ UNCHANGED <<syncVars, queue, limiter, stopHandler>>

\* The sleep ends: attempt++ and fn is invoked again.
SleepDone ==
    /\ retry.pc = "sleeping"
    /\ retry' = [retry EXCEPT !.pc = "calling", !.attempt = @ + 1, !.calls = @ + 1]
    /\ UNCHANGED <<syncVars, queue, limiter, stopHandler>>

InitRetry == SyncIdle /\ UtilIdle

NextRetry == WithRetry \/ FnReturns \/ FnThrows \/ SleepDone

SpecRetry == InitRetry /\ [][NextRetry]_vars

\* Every invocation of fn settles and every sleep ends.
SpecRetryLive ==
    SpecRetry /\ WF_vars(FnReturns \/ FnThrows) /\ WF_vars(SleepDone)

\* ------------------------------------------------------------ properties
\* A run of this behaviour has reached Completed and no later one has started.
RunCompleted == syncState.status = "completed" /\ ghost.runStart # Null

\* C1: when an invocation is killed right after a checkpoint write and sync()
\* is invoked again (no other kill, no cap, no stop, no failed item or fetch),
\* at Completed every item of the source was processed exactly once in the
\* run and the persisted stats.processed equals the number of items.
C1_ResumeExactlyOnce ==
    (RunCompleted /\ ghost.resumed /\ ghost.ckptKill /\ ~ghost.midKill /\ ~ghost.capUsed
                  /\ ~ghost.stopped /\ ~ghost.itemErr /\ ~ghost.fetchErr)
        => /\ \A id \in ItemIds : ghost.seen[id] = 1
           /\ syncState.stats.processed = NumItems

\* C2: wherever an invocation was killed, when the run reaches Completed after
\* the re-invocation (no cap, no failed fetch) every item of the source was
\* classified at least once during the run.
C2_AtLeastOnce ==
    (RunCompleted /\ (ghost.ckptKill \/ ghost.midKill) /\ ~ghost.capUsed /\ ~ghost.fetchErr)
        => \A id \in ItemIds : ghost.seen[id] >= 1

\* C3: a resuming invocation makes its first fetch with the persisted cursor,
\* the persisted syncStartTime and the persisted stats.
C3_ResumeUsesCheckpoint ==
    \A p \in Procs :
        (L(p).isResume /\ ~L(p).fetched /\ L(p).pc \in {"n_fetch", "s_fetch"})
            => /\ L(p).syncStartTime = syncState.syncStartTime
               /\ L(p).stats = syncState.stats
               /\ IF source = "notion"
                  THEN L(p).cursor = syncState.cursor
                  ELSE L(p).currentCursor = syncState.currentChannelCursor

\* C4: an invocation whose stream loop was ended by shouldStop() (timeout or
\* stop request) deletes no stale record.
C4_NoDeleteAfterStop ==
    \A p \in Procs : L(p).sawStop => L(p).pc # "del_doc"

\* C5: an invocation whose stream loop was ended by the item cap deletes no
\* stale record.
C5_NoDeleteAfterCap ==
    \A p \in Procs : L(p).sawCap => L(p).pc # "del_doc"

\* C6: after a run that reaches Completed (no cap, no stop, no failed item,
\* fetch or delete) no record with lastSeenAt earlier than the run's syncStartTime is
\* left, and no record seen in the run was deleted.
C6_StaleDeletedAtCompleted ==
    (RunCompleted /\ ~ghost.capUsed /\ ~ghost.stopped /\ ~ghost.itemErr /\ ~ghost.fetchErr
                  /\ ~ghost.delErr)
        => /\ \A id \in AllIds : docs[id] # NoDoc => docs[id].lastSeenAt >= ghost.runStart
           /\ ~ghost.wrongDelete

\* C7: at most one invocation of sync() is in the stream loop or the delete
\* phase of a source at any time.
C7_SingleActiveInvocation ==
    \A p, q \in Procs : (Active(p) /\ Active(q)) => p = q

C9_FailurePreservesCheckpoint ==
    [][(syncState'.status = "failed" /\ syncState.status # "failed")
          => /\ syncState'.lastError
             /\ syncState'.cursor = syncState.cursor
             /\ syncState'.syncStartTime = syncState.syncStartTime
             /\ syncState'.stats = syncState.stats
             /\ syncState'.currentChannelIndex = syncState.currentChannelIndex
             /\ syncState'.currentChannelCursor = syncState.currentChannelCursor
             /\ syncState'.stopRequested = syncState.stopRequested]_vars

\* C9, witness: a run failed after a checkpoint and the persisted state still
\* holds the checkpoint.
C9_FailedWithCheckpoint ==
    /\ syncState.status = "failed"
    /\ syncState.cursor # Null
    /\ syncState.syncStartTime # Null
    /\ syncState.stats.processed > 0

MarkerChanged(id, d) ==
    IF source = "notion" THEN lastEditedTime(id) > d.lastModified
    ELSE \/ replyCountOf(id) > d.replyCount
         \/ (editedTsOf(id) # Null /\ editedTsOf(id) # d.editedTs)

\* C11: the step that classifies an item takes exactly one branch, by first
\* match: no record -> the new-item branch; a record without file id -> the
\* same new-item branch, whatever its change marker; a changed marker -> the
\* update branch; otherwise the unchanged branch.
C11_ClassifiedByPriority ==
    [][\A p \in Procs :
          (inv[p].pc = "item" /\ inv'[p].pc \notin {"item", "idle"})
              => LET d == docs[inv[p].item]
                 IN  /\ inv'[p].existing = d
                     /\ inv'[p].item = inv[p].item
                     /\ inv'[p].pc =
                            (IF d = NoDoc THEN "new_save"
                             ELSE IF d.file = NoFile THEN "new_save"
                             ELSE IF MarkerChanged(inv[p].item, d) THEN "upd_render"
                             ELSE "mark_seen")]_vars

\* C11, witness: an item whose record has no file id and an older change
\* marker is in the new-item branch.
C11_IncompleteWithChangedMarker ==
    \E p \in Procs :
        /\ L(p).pc = "new_save"
        /\ L(p).existing # NoDoc
        /\ L(p).existing.file = NoFile
        /\ MarkerChanged(L(p).item, L(p).existing)

\* C12: when an item whose record has no file id (a kill between saveDocument
\* and the updateDocument that attaches the file id) is observed again and its
\* processing ends without an error, its record holds the id of a file that
\* is in the index.
C12_IncompleteRecovered ==
    [][\A p \in Procs :
          (/\ inv[p].pc \in ItemPcs \ {"item"}
           /\ inv[p].existing # NoDoc
           /\ inv[p].existing.file = NoFile
           /\ inv'[p].idx = inv[p].idx + 1
           /\ inv'[p].stats.errored = inv[p].stats.errored)
              => /\ docs'[inv[p].item] # NoDoc
                 /\ docs'[inv[p].item].file # NoFile
                 /\ docs'[inv[p].item].file \in files'
                 /\ inv'[p].stats.added = inv[p].stats.added + 1]_vars

\* C12, witness: an invocation was killed between the two writes of an item,
\* and after the re-invocation the item's record holds an indexed file.
C12_RecoveredAfterKill ==
    \E id \in ghost.orphaned :
        /\ docs[id] # NoDoc
        /\ docs[id].file # NoFile
        /\ docs[id].file \in files

\* C13: in the run that follows a run completed without item errors (and
\* without cap), the source being the same, no item is classified as new,
\* incomplete or updated, no file is uploaded or deleted, no record is deleted,
\* and at Completed the persisted stats have unchanged = number of items.
C13_SecondRunUnchanged ==
    ghost.prevClean =>
        /\ \A p \in Procs :
              /\ L(p).pc \notin {"new_save", "new_upload", "new_attach", "upd_render",
                                 "upd_delete", "upd_upload", "upd_write", "del_doc"}
              /\ L(p).stats.added = 0
              /\ L(p).stats.updated = 0
              /\ L(p).pc = "del_file" => L(p).stale = <<>>
        /\ (RunCompleted /\ ~ghost.capUsed /\ ~ghost.stopped /\ ~ghost.fetchErr)
              => syncState.stats.unchanged = NumItems

C15_StopPausesRun ==
    \A p \in Procs :
        L(p).sawStop =>
            /\ L(p).pc \notin ({"n_fetch", "s_fetch"} \cup ItemPcs)
            /\ L(p).pc \notin {"s_after", "del_query", "del_file", "del_doc", "complete"}

\* C16: the step that moves a source to completed clears cursor, syncStartTime
\* and the stop flag; no stop request is pending while the status is
\* completed; and the invocation that starts from a completed state starts a
\* fresh run: no resume, no cursor, a new syncStartTime, zero stats, and the
\* persisted state running without stop request.
C16_CompletedClearsRun ==
    /\ [](syncState.status = "completed" => ~syncState.stopRequested)
    /\ [][(syncState'.status = "completed" /\ syncState.status # "completed")
             => /\ syncState'.cursor = Null
                /\ syncState'.syncStartTime = Null
                /\ ~syncState'.stopRequested]_vars
    /\ [][\A p \in Procs :
             (syncState.status = "completed" /\ inv[p].pc = "idle" /\ inv'[p].pc # "idle")
                 => /\ ~inv'[p].isResume
                    /\ inv'[p].cursor = Null
                    /\ inv'[p].currentChannelCursor = Null
                    /\ inv'[p].syncStartTime = clock'
                    /\ inv'[p].stats = ZeroStats
                    /\ syncState'.status = "running"
                    /\ syncState'.syncStartTime = clock'
                    /\ syncState'.stats = ZeroStats
                    /\ ~syncState'.stopRequested]_vars

\* C17: when the index answers "not found" (404) to the delete of a file,
\* deleteFile does not raise: in the delete phase the invocation goes on to
\* the removal of the record, which removes it; in an update it goes on to the
\* upload; no error is counted.
C17_AbsentFileDeleteSucceeds ==
    /\ [][\A p \in Procs :
             (inv[p].pc = "del_file" /\ inv[p].stale # <<>> /\ inv'[p].pc # "idle"
                 /\ inv'[p] # inv[p] /\ inv'[p].delStatus = 404)
                 => /\ inv'[p].pc = "del_doc"
                    /\ inv'[p].stale = inv[p].stale
                    /\ inv'[p].stats = inv[p].stats
                    /\ ghost'.delErr = ghost.delErr]_vars
    /\ [][\A p \in Procs :
             (inv[p].pc = "del_doc" /\ inv[p].delStatus = 404 /\ inv'[p].pc = "del_file"
                 /\ ~ghost'.delErr)
                 => docs'[Head(inv[p].stale).id] = NoDoc]_vars
    /\ [][\A p \in Procs :
             (inv[p].pc = "upd_delete" /\ inv'[p].pc # "idle" /\ inv'[p].delStatus = 404)
                 => /\ inv'[p].pc = "upd_upload"
                    /\ inv'[p].stats = inv[p].stats]_vars

\* C17, witness: the index answered 404 to the delete of a stale record's
\* file and the record has been removed.
C17_RecordRemovedAfterNotFound ==
    \E p \in Procs :
        /\ L(p).pc = "del_file"
        /\ L(p).delStatus = 404
        /\ L(p).deleteCount >= 1
        /\ ~ghost.delErr

\* C18: when processQueue returns, results holds exactly one result per input
\* operation, in input order; the result of an operation that threw has
\* success = false and the message of its error, the result of one that did
\* not throw has success = true; and processOperation was called for every
\* operation, whatever the others did.
C18_OneResultPerOperation ==
    queue.pc = "returned" =>
        /\ Len(queue.results) = Len(queue.ops)
        /\ queue.attempted = 1..Len(queue.ops)
        /\ \A k \in 1..Len(queue.ops) :
              /\ queue.results[k].operation = queue.ops[k]
              /\ queue.results[k].success <=> queue.thrown[k] = "none"
              /\ queue.results[k].error = queue.thrown[k]

\* C18, witness: processQueue has returned for a list in which an operation
\* threw and a later one, of another chunk, succeeded after finishing out of
\* order.
C18_FailureAmongSuccesses ==
    /\ queue.pc = "returned"
    /\ Len(queue.ops) = MaxOps
    /\ queue.thrown[1] # "none"
    /\ queue.results[2].success
    /\ queue.results[MaxOps].success

\* The number of tasks started in the window of LimiterWindow units that ends
\* at instant t.
startedInWindow(t) == Len(inWindow(SelectSeq(limiter.started, LAMBDA u : u <= t), t - LimiterWindow))

\* C19: whatever the interleaving of the callers of execute() of one
\* RateLimiter, no trailing window of the length of the limiter's window holds
\* more than maxRequests starts of a task.
C19_AtMostNPerWindow ==
    \A t \in 0..limiter.now : startedInWindow(t) <= limiter.maxRequests

\* C20: fn is invoked again after a failure only when retryOn held for the
\* error and fewer than maxRetries retries had been made, and only after a
\* sleep; a failure for which retryOn does not hold is the last one: it is
\* re-raised as it is, with no sleep and no further invocation after it.
C20_RetryOnlyWhenClassified ==
    /\ retry.calls <= retry.maxRetries + 1
    /\ \A k \in 1..Len(retry.errors) :
          /\ (k < retry.calls \/ retry.pc = "sleeping") =>
                /\ retryOn(retry.retryOn, retry.errors[k])
                /\ k <= retry.maxRetries
                /\ Len(retry.sleeps) >= k
          /\ ~retryOn(retry.retryOn, retry.errors[k]) =>
                /\ k = Len(retry.errors)
                /\ retry.pc = "thrown"
                /\ retry.thrown = retry.errors[k]
                /\ retry.calls = k
                /\ Len(retry.sleeps) = k - 1

\* C20, witness: with retries left, fn failed with a rate-limit error, was
\* invoked again after the sleep and failed with another error, which was
\* re-raised.
C20_RethrownAfterOneRetry ==
    /\ retry.pc = "thrown"
    /\ retry.retryOn = "isRateLimitError"
    /\ retry.maxRetries = MaxRetriesOption
    /\ retry.calls = 2
    /\ Len(retry.sleeps) = 1
    /\ isRateLimitError(retry.errors[1])
    /\ ~isRateLimitError(retry.thrown)

\* C21: a call of withRetry whose task settles at every invocation ends; fn is
\* invoked at most maxRetries + 1 times; when withRetry returns, it returns
\* the value of the first invocation that succeeded, and every invocation
\* before it had failed; when every invocation failed with an error retryOn
\* holds for, all maxRetries + 1 invocations were made and the error raised
\* is the one of the last; and nothing is invoked after the end.
C21_RetryTerminates ==
    /\ [](/\ retry.calls <= retry.maxRetries + 1
          /\ retry.pc = "returned" =>
                /\ retry.result = retry.calls
                /\ Len(retry.errors) = retry.calls - 1
          /\ (/\ retry.pc = "thrown"
              /\ \A k \in 1..Len(retry.errors) : retryOn(retry.retryOn, retry.errors[k]))
                => /\ retry.calls = retry.maxRetries + 1
                   /\ Len(retry.errors) = retry.calls
                   /\ retry.thrown = retry.errors[Len(retry.errors)])
    /\ [][retry.pc \in {"returned", "thrown"} => retry' = retry]_vars
    /\ (retry.pc = "calling") ~> (retry.pc \in {"returned", "thrown"})

\* C21, witness: every invocation failed with a rate-limit error and the
\* error of invocation maxRetries + 1 was raised.
C21_ExhaustedRetries ==
    /\ retry.pc = "thrown"
    /\ retry.retryOn = "isRateLimitError"
    /\ retry.maxRetries = MaxRetriesOption
    /\ retry.calls = MaxRetriesOption + 1
    /\ \A k \in 1..Len(retry.errors) : isRateLimitError(retry.errors[k])
    /\ retry.thrown = retry.errors[MaxRetriesOption + 1]
    /\ retry.thrown # retry.errors[1]

\* C22: the stop flag is set only in a state whose persisted status is
\* running, and a request that is answered 400 leaves the persisted sync
\* state as it was.
C22_StopOnlyWhileRunning ==
    /\ [][(syncState'.stopRequested /\ ~syncState.stopRequested)
             => syncState.status = "running"]_vars
    /\ [][(stopHandler'.requests = stopHandler.requests + 1 /\ stopHandler'.response = 400)
             => syncState' = syncState]_vars

\* C23: whenever sync() has returned (completed, paused or failed), the
\* added / updated / deleted / errored counts of the result it returned are
\* the counts of the run's stats at the return.
C23_ResultCarriesStats ==
    ghost.result.outcome # "none" =>
        ghost.result.processed = countsOf(ghost.result.stats)

\* processChannel was left while the history of its channel had more pages,
\* the next of them at l.currentCursor; sync() has since stepped to the next
\* index, so the channel is number l.i - 1.
LeftPartlyRead(l) == l.hasMore /\ l.currentCursor # Null /\ l.maxItems = 0

\* C24: when a Slack invocation pauses after it left a channel partly read,
\* the checkpoint it has persisted before it sets the status timeout names
\* that channel and the cursor of its next page.
C24_PauseKeepsChannelCursor ==
    \A p \in Procs :
        (source = "slack" /\ L(p).pc = "stop_status" /\ LeftPartlyRead(L(p)))
            => /\ syncState.currentChannelIndex = L(p).i - 1
               /\ syncState.currentChannelCursor = L(p).currentCursor

\* C25: in a run without cap, stop or failed fetch, no record of an item that
\* the source returned in the run and whose processing failed (counted in
\* stats.errored) is deleted by the delete phase of that run.
C25_ErroredNotDeleted ==
    (~ghost.capUsed /\ ~ghost.stopped /\ ~ghost.fetchErr)
        => ghost.failed \cap ghost.removed = {}

\* C26: in the invocation in which a fetch of the source failed after its
\* retries, no further item is processed, the delete phase is not entered and
\* the run is not completed: what is left is the way to status failed.
C26_FetchFailureFailsRun ==
    (ghost.fetchErr /\ ~ghost.resumed) =>
        /\ \A p \in Procs :
              L(p).pc \notin (ItemPcs \cup {"s_fetch", "del_query", "del_file", "del_doc",
                                            "complete"})
        /\ syncState.status # "completed"

\* C27: the record of a new or incomplete item is saved with an empty file id
\* before files.create is called; while the create call is outstanding or
\* has failed the record keeps the empty id; and a file id is written to a
\* record only when files.create returned it, so that it names a file of the
\* index at that moment.
C27_RecordBeforeArtifact ==
    /\ [][\A p \in Procs :
            (inv[p].pc = "new_save" /\ inv'[p].pc = "new_upload") =>
                /\ docs'[inv[p].item] # NoDoc
                /\ docs'[inv[p].item].file = NoFile
                /\ files' = files]_vars
    /\ [][\A p \in Procs :
            (inv[p].pc = "new_upload" /\ inv'[p].pc # "new_attach") =>
                /\ docs'[inv[p].item] # NoDoc
                /\ docs'[inv[p].item].file = NoFile]_vars
    /\ [][\A id \in AllIds :
            (docs'[id] # NoDoc /\ docs'[id].file # NoFile
               /\ (docs[id] = NoDoc \/ docs[id].file # docs'[id].file)) =>
                /\ docs'[id].file \in files
                /\ \E p \in Procs : /\ inv[p].pc \in {"new_attach", "upd_write"}
                                     /\ inv[p].item = id
                                     /\ inv[p].fileId = docs'[id].file]_vars

\* files.create has returned for a new item whose record still has the empty
\* file id.
C27_CreatedNotYetAttached ==
    \E p \in Procs : /\ L(p).pc = "new_attach"
                     /\ docs[L(p).item] # NoDoc
                     /\ docs[L(p).item].file = NoFile
                     /\ L(p).fileId \in files

\* The items counted as added, updated or unchanged.
applied(stats) == stats.added + stats.updated + stats.unchanged

\* C28: the step that ends an item with success (counted as added, updated or
\* unchanged) leaves its record with lastSeenAt at or after the syncStartTime
\* of the run, which is the persisted one; lastSeenAt of a record never
\* decreases; the delete phase removes only records whose lastSeenAt is before
\* that syncStartTime; so no item that was classified in the run and did not
\* fail is removed by the delete phase of the run.
C28_AppliedIsSeen ==
    /\ [][\A p \in Procs :
            (inv[p].pc \in ItemPcs /\ applied(inv'[p].stats) > applied(inv[p].stats)) =>
                /\ docs'[inv[p].item] # NoDoc
                /\ docs'[inv[p].item].lastSeenAt >= inv[p].syncStartTime
                /\ inv[p].syncStartTime = syncState.syncStartTime]_vars
    /\ [][\A id \in AllIds :
            (docs[id] # NoDoc /\ docs'[id] # NoDoc) =>
                docs'[id].lastSeenAt >= docs[id].lastSeenAt]_vars
    /\ [][\A id \in AllIds :
            (docs[id] # NoDoc /\ docs'[id] = NoDoc) =>
                docs[id].lastSeenAt < syncState.syncStartTime]_vars
    /\ [](~ghost.midKill =>
            \A id \in ItemIds :
                (ghost.seen[id] >= 1 /\ id \notin ghost.failed) => id \notin ghost.removed)

\* The delete phase has found a stale record while every item of the source
\* was applied in the run and has lastSeenAt at or after its syncStartTime.
C28_AppliedKeptStaleFound ==
    \E p \in Procs :
        /\ L(p).pc = "del_file"
        /\ Len(L(p).stale) > 0
        /\ ~ghost.midKill /\ ghost.failed = {}
        /\ \A id \in ItemIds : /\ ghost.seen[id] >= 1
                                /\ docs[id] # NoDoc
                                /\ docs[id].lastSeenAt >= L(p).syncStartTime
        /\ \E id \in ItemIds : docs[id].lastSeenAt > L(p).syncStartTime

\* The item of invocation l was classified updated and its rendered content
\* has the stored hash.
HashEqual(l) ==
    /\ l.pc = "upd_render"
    /\ calculateContentHash(ContentOf(l.item)) = l.existing.contentHash

\* C29: for an item classified updated whose rendered content has the stored
\* hash, the invocation makes no call to the index (it goes neither to the
\* deletion of the old file nor to an upload, and the files of the index stay
\* as they are), the record keeps its file id and its contentHash, and when
\* the item is counted as updated the record differs from the one read only
\* in its change marker (lastModified; replyCount and editedTs) and in
\* lastSeenAt, which is the syncStartTime, and is classified unchanged.
C29_HashEqualMetadataOnly ==
    [][\A p \in Procs :
        (HashEqual(inv[p]) /\ inv'[p] # inv[p]) =>
            /\ inv'[p].pc \notin {"upd_delete", "upd_upload", "upd_write"}
            /\ files' = files
            /\ docs'[inv[p].item] # NoDoc
            /\ docs'[inv[p].item].file = inv[p].existing.file
            /\ docs'[inv[p].item].contentHash = inv[p].existing.contentHash
            /\ \A id \in AllIds \ {inv[p].item} : docs'[id] = docs[id]
            /\ (inv'[p].stats.updated > inv[p].stats.updated =>
                  /\ docs'[inv[p].item].lastSeenAt = inv[p].syncStartTime
                  /\ Classify(source, inv[p].item, docs'[inv[p].item]) = "unchanged"
                  /\ docs[inv[p].item] = inv[p].existing)]_vars

\* An item was counted as updated and its record is the one of the earlier
\* run with the older change marker and the same content, changed only by the
\* hash-equal updateDocument; the index still holds its file.
C29_UpdatedKeepsOldFile ==
    \E p \in Procs :
        /\ Active(p)
        /\ L(p).stats.updated >= 1
        /\ \E id \in ItemIds :
              /\ docs[id] = metadataUpdate(source, id, InitDoc(id, "touched"),
                                           L(p).syncStartTime)
              /\ docs[id] # InitDoc(id, "touched")
              /\ docs[id].file \in files

\* The step of invocation p counts its item as unchanged.
CountedUnchanged(p) ==
    /\ inv[p].pc = "mark_seen"
    /\ inv'[p].stats.unchanged > inv[p].stats.unchanged

\* C30 (as stated): an item classified a second time in the run and found
\* unchanged again produces no write: the records and the files of the
\* index are after the step what they were before.
C30_ReclassifyNoWrites ==
    [][\A p \in Procs :
        (CountedUnchanged(p) /\ ghost.seen[inv[p].item] = 2) =>
            (docs' = docs /\ files' = files)]_vars

\* C30 (amended): an item reaches the unchanged branch only with a record
\* that classifies as unchanged; the branch writes nothing but lastSeenAt of
\* that record (no other field, no other record, no file of the index, not
\* the SyncState), and the record it leaves classifies as unchanged again.
C30_ReclassifyRefreshesSeenOnly ==
    /\ [](\A p \in Procs :
            L(p).pc = "mark_seen" => Classify(source, L(p).item, L(p).existing) = "unchanged")
    /\ [][\A p \in Procs :
            CountedUnchanged(p) =>
                /\ docs[inv[p].item] = inv[p].existing
                /\ docs' = [docs EXCEPT ![inv[p].item].lastSeenAt = docs'[inv[p].item].lastSeenAt]
                /\ docs'[inv[p].item].lastSeenAt >= docs[inv[p].item].lastSeenAt
                /\ files' = files
                /\ syncState' = syncState
                /\ Classify(source, inv[p].item, docs'[inv[p].item]) = "unchanged"]_vars

\* An item is in the unchanged branch for the second time in the run, with
\* the record the first time left (lastSeenAt of this run).
C30_UnchangedSecondTime ==
    \E p \in Procs :
        /\ L(p).pc = "mark_seen"
        /\ ghost.seen[L(p).item] = 2
        /\ L(p).existing.lastSeenAt >= L(p).syncStartTime
        /\ L(p).existing.file \notin (FileIds \cup {NoFile})

\* C31: when no item operation is in progress (no invocation is inside the
\* processing of an item or between the two steps of the deletion of a stale
\* record) and no invocation was killed in the run, every record with a file
\* id names a file the index holds.
C31_FileIdsExist ==
    (/\ \A p \in Procs : L(p).pc \notin (ItemPcs \cup {"del_doc"})
     /\ ~ghost.midKill /\ ~ghost.ckptKill /\ ~ghost.delErr) =>
        \A id \in AllIds :
            (docs[id] # NoDoc /\ docs[id].file # NoFile) => docs[id].file \in files

\* The ids of the records the delete phase of invocation l still has to visit.
staleIds(l) == {l.stale[k].id : k \in DOMAIN l.stale}

C33_StatusTransitions ==
    /\ [][syncState'.status # syncState.status =>
            \/ /\ syncState'.status = "running"
               /\ \E p \in Procs : ~Active(p) /\ inv'[p].pc # "idle"
            \/ /\ syncState.status = "running"
               /\ syncState'.status \in {"completed", "failed", "timeout"}]_vars
    /\ [][\A p \in Procs :
            (Active(p) /\ inv'[p] # inv[p] /\ syncState'.status # syncState.status) =>
                inv'[p].pc = "idle"]_vars

OutcomeCounters == {"added", "updated", "unchanged", "errored"}
outcomes(stats) == stats.added + stats.updated + stats.unchanged + stats.errored

\* C35: the step that ends the processing of an item adds one to exactly one
\* of stats.added, stats.updated, stats.unchanged and stats.errored and leaves
\* the other three; no other step of the processing of an item changes
\* them; and for
\* Notion stats.processed is their sum in every persisted SyncState and in
\* the stats of an invocation between two items.
C35_OneCounterPerItem ==
    /\ [][\A p \in Procs :
            (inv[p].pc \in ItemPcs /\ inv'[p].pc # "idle"
               /\ \E c \in OutcomeCounters : inv'[p].stats[c] # inv[p].stats[c]) =>
                /\ inv'[p].idx = inv[p].idx + 1
                /\ \E c \in OutcomeCounters :
                      /\ inv'[p].stats[c] = inv[p].stats[c] + 1
                      /\ \A d \in OutcomeCounters \ {c} : inv'[p].stats[d] = inv[p].stats[d]]_vars
    /\ [][\A p \in Procs :
            (inv[p].pc \in ItemPcs /\ inv'[p].pc # "idle" /\ inv'[p].idx # inv[p].idx) =>
                outcomes(inv'[p].stats) = outcomes(inv[p].stats) + 1]_vars
    /\ [](source = "notion" =>
            /\ syncState.stats.processed = outcomes(syncState.stats)
            /\ \A p \in Procs : L(p).stats.processed = outcomes(L(p).stats))

\* A resumed Notion run has persisted a checkpoint that counts a failed item
\* next to items that were applied.
C35_CheckpointAfterResume ==
    /\ source = "notion"
    /\ ghost.resumed
    /\ syncState.stats.errored >= 1
    /\ syncState.stats.processed > syncState.stats.errored
    /\ syncState.stats.processed = NumItems

\* The operations of processQueue that have been started and have not yet
\* finished.
inFlight == {k \in DOMAIN queue.slots : queue.slots[k].state # "done"}

\* C36: at every moment of a call of processQueue at most `concurrency`
\* operations have been started and are not finished, and an operation of a
\* later chunk is started only when no operation is in flight.
C36_BoundedFanOut ==
    /\ [](Cardinality(inFlight) <= QueueConcurrency)
    /\ [][queue'.attempted # queue.attempted =>
            (inFlight = {} /\ Cardinality(queue'.attempted \ queue.attempted) <= QueueConcurrency)]_vars

\* As many operations as the fan-out allows are in flight while another
\* operation of the input waits for its chunk.
C36_FullFanOutOthersWaiting ==
    /\ queue.pc = "chunk"
    /\ Cardinality(inFlight) = QueueConcurrency
    /\ Len(queue.ops) > QueueConcurrency
    /\ queue.attempted # 1..Len(queue.ops)

\* What the caller of processQueue holds: the promise resolves with the
\* results array at the return, and nothing is handed out before.
delivered == IF queue.pc = "returned" THEN queue.results ELSE <<>>

\* C37: when the results of an early chunk have been collected while later
\* operations of the same call are still unfinished, the caller of
\* processQueue already has those results.
C37_ResultsProgressive ==
    (queue.pc = "chunk" /\ Len(queue.results) >= 1) => Len(delivered) >= Len(queue.results)

\* C38: every caller of execute() whose sleep ends within the time modelled
\* eventually starts its task, and a task is not started for a caller while a
\* caller that called execute() earlier is still in the sleep of waitIfNeeded,
\* waiting for capacity.
C38_NoStarvationLongestFirst ==
    /\ \A c \in Callers :
          (limiter.at[c] \in {"sleeping", "waited"} /\ limiter.wake[c] <= LimiterMaxTime)
              ~> (limiter.at[c] = "started")
    /\ [][\A c \in Callers :
            (limiter.at[c] # "started" /\ limiter'.at[c] = "started") =>
                \A j \in DOMAIN limiter.order :
                    (\E m \in DOMAIN limiter.order : m > j /\ limiter.order[m] = c) =>
                        limiter.at[limiter.order[j]] # "sleeping"]_vars

\* ------------------------------------------------------------ C39
\* C39: RateLimiter.execute records the start timestamp before it runs the
\* task: the step that starts a task appends the current instant to
\* requestTimes while the task is still pending, and the settling of a task,
\* resolved or rejected, leaves requestTimes as it is. So for every instant
\* still inside the window, requestTimes holds one timestamp per task started
\* at that instant, whether the task resolved, threw or never completed: a
\* failed task never frees its slot early.
C39_StartRecordedSlotKept ==
    /\ [](\A t \in 0..limiter.now :
            t > limiter.now - LimiterWindow =>
                Cardinality({i \in DOMAIN limiter.requestTimes :
                                limiter.requestTimes[i] = t})
                  = Cardinality({c \in Callers : /\ limiter.at[c] = "started"
                                                 /\ limiter.startedAt[c] = t}))
    /\ [][\A c \in Callers :
            /\ (limiter.at[c] # "started" /\ limiter'.at[c] = "started") =>
                  /\ limiter'.requestTimes = Append(limiter.requestTimes, limiter.now)
                  /\ limiter'.outcome[c] = "pending"
            /\ limiter'.outcome[c] # limiter.outcome[c] =>
                  limiter'.requestTimes = limiter.requestTimes]_vars

\* C39 witness: the only task started inside the window has thrown, and a
\* call of execute() would still have to wait for its slot.
C39_FailedTaskHoldsSlot ==
    /\ limiter.maxRequests = 1
    /\ waitTime(inWindow(limiter.requestTimes, limiter.now - LimiterWindow),
                limiter.maxRequests, limiter.now) > 0
    /\ \E c \in Callers :
          /\ limiter.at[c] = "started"
          /\ limiter.outcome[c] = "rejected"
          /\ limiter.startedAt[c] > limiter.now - LimiterWindow
          /\ limiter.startedAt[c] < limiter.now
          /\ \A d \in Callers \ {c} : limiter.at[d] = "idle"

\* ------------------------------------------------------------ C40
\* C40: before retry number k (k = 0 for the first retry) withRetry sleeps
\* exactly min(initialDelayMs * 2^k, maxDelayMs): the k-th sleep of a call is
\* the doubled initial delay while that is below the cap and the cap from then
\* on, the sleeps of a call never decrease and none exceeds maxDelayMs; and a
\* sleep is started only by a failed invocation of fn, one sleep before every
\* retry.
C40_BackoffDelays ==
    /\ [](\A k \in DOMAIN retry.sleeps :
            /\ retry.sleeps[k] =
                  IF InitialDelay * (2 ^ (k - 1)) <= MaxDelay
                  THEN InitialDelay * (2 ^ (k - 1))
                  ELSE MaxDelay
            /\ retry.sleeps[k] <= MaxDelay
            /\ k > 1 => retry.sleeps[k - 1] <= retry.sleeps[k])
    /\ [](retry.pc \in {"calling", "returned", "thrown"} =>
            Len(retry.sleeps) = retry.attempt)
    /\ [](retry.pc = "sleeping" => Len(retry.sleeps) = retry.attempt + 1)

\* C40 witness: a call of withRetry has slept before each of its retries, the
\* first sleep shorter than the last one, which is the cap, and fn is invoked
\* for the last retry.
C40_SleptUpToCap ==
    /\ retry.pc = "calling"
    /\ retry.attempt = retry.maxRetries
    /\ Len(retry.sleeps) >= 3
    /\ retry.sleeps[1] < retry.sleeps[Len(retry.sleeps)]
    /\ retry.sleeps[Len(retry.sleeps)] = MaxDelay

====
